---- MODULE Spec2Model ----
(***************************************************************************)
(* Earthquake simulator: the WebSocket relay (server/index.js) that spawns *)
(* one engine process per session and forwards its output, and the engine  *)
(* (quake_cuda_cpml.cu) that steps the wave field and streams frames.      *)
(***************************************************************************)
EXTENDS Integers, Sequences, FiniteSets, TLC

(***************************************************************************)
(* Bounds of the model.                                                    *)
(***************************************************************************)
\* engine processes one session may spawn (start commands handled)
MaxProcs == 2
\* last engine iteration whose output is followed, with restarts (Spec)
SessIter == 0
\* last engine iteration whose output is followed, in a single run (SpecRun)
RunIter == 120
\* largest grid height a start command asks for (the width is 1)
MaxNy == 1
\* step budget of the long engine runs
MaxSteps == 201
\* requested dt ranges over 0..MaxDt times DtUnit
MaxDt == 5
\* cfl ranges over 1..MaxCfl times 0.45
MaxCfl == 2
\* dx ranges over 1..MaxDx
MaxDx == 3
\* c0 ranges over 1..MaxC0
MaxC0 == 3
\* grids of the sponge mask are up to MaxGrid by MaxGrid
MaxGrid == 7
\* largest sponge thickness
MaxPml == 4
\* step of the requested dt values, in fixed point (0.1)
DtUnit == 100
\* lines of stderr text in the runs that follow the line splitting
MaxLines == 3
\* frames the client receives in the runs that follow its frame queue
MaxFrames == 3
\* animation ticks of the client in those runs
MaxTicks == 3

(***************************************************************************)
(* Program constants.                                                      *)
(***************************************************************************)
\* sizeof(float): frameSize = nx * ny * 4
FloatBytes == 4
\* "--frames_every", 60 : the interval the relay passes to every engine
RelayFramesEvery == 60
\* static constexpr int REPORT_STEPS = 100
REPORT_STEPS == 100
\* units of a fixed-point float to 1.0
FP == 1000
\* static constexpr float VISC_ALPHA = 0.002f, in fixed point
VISC_ALPHA == 2
\* 1.41421356f, in fixed point
SQRT2 == 1414
\* M_PI, in fixed point
PI == 3142
\* int R = 3 of add_source
SourceR == 3

VARIABLES
    \* ---- relay, per connection (ws.*) ----
    engineProc,     \* ws.engineProc: 0 is null, else the process handle
    stdoutBuffer,   \* ws.stdoutBuffer: bytes received and not yet framed
    stderrBuffer,   \* ws.stderrBuffer: text received and not yet split in lines
    frameSize,      \* ws.frameSize
    readyState,     \* ws.readyState: "OPEN" or "CLOSED"
    relayUp,        \* the Node process of the relay runs
    peer,           \* a second connection: its ws.* fields, the messages sent on
                    \* it since its last command, and the processes it spawned
    \* ---- the engine processes the relay spawned ----
    procState,      \* "none", "running", "killed" (kill requested, alive), "dead"
                    \* (exited), "failed" (the launch failed, nothing ever ran)
    procCfg,        \* the nx, ny the process was started with
    procPos,        \* -1 before the HEADER line, else the next iteration with output
    outWritten,     \* bytes the process wrote to its stdout
    outRead,        \* bytes of them the relay's data handler received
    errPipe,        \* text written to stderr and not yet received
    \* ---- history ----
    sent,           \* messages the relay sent to the client since the last command, in order
    lastCmd,        \* last control command handled: "none", "start", "stop", "close"
    quick,          \* processes stopped before the relay received anything of their run
    \* ---- one engine process: main() of quake_cuda_cpml.cu ----
    args,           \* argv[1..]: the words of the command line
    pc,             \* position in main
    P,              \* Params P
    h_c,            \* velocity field
    h_sponge,       \* sponge mask, each value a fraction [n, d]
    mem,            \* the three device buffers cudaMalloc returned, by index 0..2
    d_u0, d_u1, d_u2,   \* the handles: indices into mem
    n, t, acc,      \* loop counter, simulated time, timing accumulator
    events,         \* what main has written so far, in order, by kind
    lastFrame,      \* the frame written last
    lastEnergy,     \* the energy reported last, -1 before the first report
    stream,         \* the kernels launched and not yet begun, in launch order
    running,        \* the kernels the device is executing
    lastDone,       \* per kernel, the iteration of its launch that completed last
    \* ---- the page of the client: public/app.js ----
    client          \* its socket, its frame queue, the frame texture of its renderer,
                    \* and the history of what it received and rendered

relayVars == <<engineProc, stdoutBuffer, stderrBuffer, frameSize, readyState, relayUp, peer,
               procState, procCfg, procPos, outWritten, outRead, errPipe,
               sent, lastCmd, quick>>

deviceVars == <<stream, running, lastDone>>

engineVars == <<args, pc, P, h_c, h_sponge, mem, d_u0, d_u1, d_u2, n, t, acc,
                events, lastFrame, lastEnergy, deviceVars>>

vars == <<relayVars, engineVars, client>>

Procs == 1..MaxProcs
NULL == 0

(***************************************************************************)
(* Text of the engine's stderr, as tokens; a line ends with NL.            *)
(***************************************************************************)
Tok(k, a, b) == [k |-> k, a |-> a, b |-> b]
NL == Tok("NL", 0, 0)

\* fprintf(stderr, "HEADER nx=%d ny=%d dt=%g frames_every=%d\n", ...)
HeaderLine(nx, ny) == <<Tok("HEADER", 0, 0), Tok("DIMS", nx, ny), NL>>
\* fprintf(stderr, "PERF step_ms_avg=%g\n", ...)
PerfLine == <<Tok("PERF", 0, 0), NL>>
\* fprintf(stderr, "ENERGY val=%e\n", h_energy)
EnergyLine == <<Tok("ENERGY", 0, 0), NL>>

\* a line that is none of the three: the message of die, of CUDA_OK
OtherLine == <<Tok("OTHER", 0, 0), NL>>

\* bytes [from, from+len) of process p's stdout stream
Bytes(p, from, len) == [i \in 1..len |-> <<p, from + i - 1>>]

(***************************************************************************)
(* The relay: server/index.js                                              *)
(***************************************************************************)
\* the handle the next spawn returns; NextProc - 1 is the latest run
NextProc == Cardinality({p \in Procs : procState[p] # "none"}) + 1

\* a message to the client: JSON text (meta, analytics) or a binary frame
Msg(type, bytes, nx, ny, key) ==
    [type |-> type, bytes |-> bytes, nx |-> nx, ny |-> ny, key |-> key]

\* ws.send: a closed socket delivers nothing
Send(log, msgs) == IF readyState = "OPEN" THEN log \o msgs ELSE log

\* the session fields the handlers read and write
Session == [engineProc |-> engineProc, stdoutBuffer |-> stdoutBuffer,
            stderrBuffer |-> stderrBuffer, frameSize |-> frameSize,
            procState |-> procState]

\* a process the relay spawned that has not exited
Alive(p) == procState[p] \in {"running", "killed"}

\* ws.engineProc.kill(): the signal is sent, the process is still alive
kill(ps, p) == IF ps[p] = "running" THEN [ps EXCEPT ![p] = "killed"] ELSE ps

\* stopEngine that forgets the process without ws.engineProc.kill()
stopEngine_NoKill(s) ==
    [s EXCEPT !.engineProc = NULL,
              !.stdoutBuffer = <<>>,
              !.stderrBuffer = <<>>,
              !.frameSize = 0]

\* stopEngine with the buffer reset inside the if (ws.engineProc) block
stopEngine_ResetIfRunning(s) ==
    IF s.engineProc # NULL
    THEN [s EXCEPT !.procState = kill(s.procState, s.engineProc),
                   !.engineProc = NULL,
                   !.stdoutBuffer = <<>>,
                   !.stderrBuffer = <<>>,
                   !.frameSize = 0]
    ELSE s

stopEngine(s) ==
    LET killed == IF s.engineProc # NULL
                  THEN [s EXCEPT !.procState = kill(s.procState, s.engineProc),
                                 !.engineProc = NULL]
                  ELSE s
    IN  [killed EXCEPT !.stdoutBuffer = <<>>,
                       !.stderrBuffer = <<>>,
                       !.frameSize = 0]

\* spawn(ENGINE_PATH, args, ...): the new process p runs
spawn(ps, p) == [ps EXCEPT ![p] = "running"]

startEngine(s, p) ==
    LET stopped == stopEngine(s)
        reset == [stopped EXCEPT !.stdoutBuffer = <<>>,
                                 !.stderrBuffer = <<>>,
                                 !.frameSize = 0]
    IN  [reset EXCEPT !.procState = spawn(reset.procState, p),
                      !.engineProc = p]

SetSession(s) ==
    /\ engineProc' = s.engineProc
    /\ stdoutBuffer' = s.stdoutBuffer
    /\ stderrBuffer' = s.stderrBuffer
    /\ frameSize' = s.frameSize
    /\ procState' = s.procState

\* ws.on("message") with {type: "start", cfg}
StartCmd(nx, ny) ==
    /\ relayUp
    /\ readyState = "OPEN"
    /\ NextProc \in Procs
    /\ SetSession(startEngine(Session, NextProc))
    /\ procCfg' = [procCfg EXCEPT ![NextProc] = [nx |-> nx, ny |-> ny]]
    /\ lastCmd' = "start"
    /\ sent' = <<>>
    /\ UNCHANGED <<engineVars, client, relayUp, peer, readyState, procPos, outWritten, outRead, errPipe, quick>>

\* ws.on("message") with {type: "stop"}
StopCmd ==
    /\ relayUp
    /\ readyState = "OPEN"
    /\ SetSession(stopEngine(Session))
    /\ lastCmd' = "stop"
    /\ quick' = IF /\ lastCmd = "start"
                   /\ engineProc # NULL
                   /\ sent = <<>> /\ frameSize = 0
                   /\ stdoutBuffer = <<>> /\ stderrBuffer = <<>>
                   /\ procPos[engineProc] <= RelayFramesEvery
                THEN quick \cup {engineProc}
                ELSE quick
    /\ sent' = <<>>
    /\ UNCHANGED <<engineVars, client, relayUp, peer, readyState, procCfg, procPos, outWritten, outRead, errPipe>>

\* ws.on("close")
Close ==
    /\ relayUp
    /\ readyState = "OPEN"
    /\ readyState' = "CLOSED"
    /\ SetSession(stopEngine(Session))
    /\ lastCmd' = "close"
    /\ sent' = <<>>
    /\ UNCHANGED <<engineVars, client, relayUp, peer, procCfg, procPos, outWritten, outRead, errPipe, quick>>

\* startEngine(ws, undefined): stopEngine and the reset of the buffers run,
\* then cfg.nx throws a TypeError and nothing is spawned
startEngineNoCfg(s) ==
    [stopEngine(s) EXCEPT !.stdoutBuffer = <<>>,
                          !.stderrBuffer = <<>>,
                          !.frameSize = 0]

\* ws.on("message") with a message that is no command: text that JSON.parse
\* refuses ("notjson", the catch logs it), a type that is neither start nor
\* stop ("unknown", no branch is taken), and {type: "start"} without cfg
\* ("nocfg", the catch logs the TypeError of startEngine)
BadMsg(kind) ==
    /\ relayUp
    /\ readyState = "OPEN"
    /\ SetSession(IF kind = "nocfg" THEN startEngineNoCfg(Session) ELSE Session)
    /\ UNCHANGED <<engineVars, client, relayUp, peer, readyState, procCfg, procPos, outWritten,
                   outRead, errPipe, sent, lastCmd, quick>>

\* ws.on("message") with {type: "start", cfg} when the engine cannot be
\* launched (no executable at ENGINE_PATH): spawn returns a ChildProcess, which
\* startEngine keeps in ws.engineProc, and no process runs
StartCmdFail(nx, ny) ==
    /\ relayUp
    /\ readyState = "OPEN"
    /\ NextProc \in Procs
    /\ LET s == startEngine(Session, NextProc) IN
       SetSession([s EXCEPT !.procState = [@ EXCEPT ![NextProc] = "failed"]])
    /\ procCfg' = [procCfg EXCEPT ![NextProc] = [nx |-> nx, ny |-> ny]]
    /\ lastCmd' = "start"
    /\ sent' = <<>>
    /\ UNCHANGED <<engineVars, client, relayUp, peer, readyState, procPos, outWritten, outRead,
                   errPipe, quick>>

\* the 'error' event of the ChildProcess whose launch failed: startEngine has
\* attached no 'error' listener and the relay has no uncaughtException
\* handler, so the event is thrown and ends the Node process and with it
\* every connection
SpawnError(p) ==
    /\ relayUp
    /\ procState[p] = "failed"
    /\ relayUp' = FALSE
    /\ readyState' = "CLOSED"
    /\ peer' = [peer EXCEPT !.readyState = "CLOSED"]
    /\ UNCHANGED <<engineVars, client, engineProc, stdoutBuffer, stderrBuffer, frameSize,
                   procState, procCfg, procPos, outWritten, outRead, errPipe, sent,
                   lastCmd, quick>>

\* index of the first NL of a text, 0 when it has none: indexOf('\n')
IndexOfNL(buf) ==
    IF \E i \in 1..Len(buf) : buf[i] = NL
    THEN CHOOSE i \in 1..Len(buf) : buf[i] = NL /\ \A j \in 1..(i-1) : buf[j] # NL
    ELSE 0

\* msg.match(/HEADER nx=(\d+) ny=(\d+)/): the dimensions, or <<>> for no match
MatchHeader(line) ==
    IF \E i \in 1..(Len(line)-1) : line[i].k = "HEADER" /\ line[i+1].k = "DIMS"
    THEN LET i == CHOOSE i \in 1..(Len(line)-1) :
                      line[i].k = "HEADER" /\ line[i+1].k = "DIMS"
         IN  <<line[i+1].a, line[i+1].b>>
    ELSE <<>>
\* msg.match(/PERF step_ms_avg=([\d.-]+)/)
MatchPerf(line) == \E i \in 1..Len(line) : line[i].k = "PERF"
\* msg.match(/ENERGY val=([\d.eE+-]+)/)
MatchEnergy(line) == \E i \in 1..Len(line) : line[i].k = "ENERGY"

\* the stderr loop that forgets the text after the last newline
RECURSIVE ProcessLines_DropPartial(_)
ProcessLines_DropPartial(st) ==
    LET newlineIndex == IndexOfNL(st.buf) IN
    IF newlineIndex = 0 THEN [st EXCEPT !.buf = <<>>]
    ELSE LET msg == SubSeq(st.buf, 1, newlineIndex - 1)
             rest == SubSeq(st.buf, newlineIndex + 1, Len(st.buf))
             header == MatchHeader(msg)
         IN  IF msg = <<>> THEN ProcessLines_DropPartial([st EXCEPT !.buf = rest])
             ELSE IF header # <<>> THEN
                 ProcessLines_DropPartial([buf |-> rest,
                               frameSize |-> header[1] * header[2] * FloatBytes,
                               out |-> Append(st.out,
                                   Msg("meta", <<>>, header[1], header[2], ""))])
             ELSE IF MatchPerf(msg) THEN
                 ProcessLines_DropPartial([st EXCEPT !.buf = rest,
                     !.out = Append(st.out, Msg("analytics", <<>>, 0, 0, "gpu"))])
             ELSE IF MatchEnergy(msg) THEN
                 ProcessLines_DropPartial([st EXCEPT !.buf = rest,
                     !.out = Append(st.out, Msg("analytics", <<>>, 0, 0, "energy"))])
             ELSE ProcessLines_DropPartial([st EXCEPT !.buf = rest])

\* a frame size that counts cells, not bytes
FrameSize_Cells(nx, ny) == nx * ny

\* ws.frameSize = nx * ny * 4
FrameSize(nx, ny) == nx * ny * FloatBytes

\* the while loop of the stderr data handler: every complete line of the
\* buffer is taken off and classified; st = [buf, frameSize, out]
RECURSIVE ProcessLines(_)
ProcessLines(st) ==
    LET newlineIndex == IndexOfNL(st.buf) IN
    IF newlineIndex = 0 THEN st
    ELSE LET msg == SubSeq(st.buf, 1, newlineIndex - 1)
             rest == SubSeq(st.buf, newlineIndex + 1, Len(st.buf))
             header == MatchHeader(msg)
         IN  IF msg = <<>> THEN ProcessLines([st EXCEPT !.buf = rest])
             ELSE IF header # <<>> THEN
                 ProcessLines([buf |-> rest,
                               frameSize |-> FrameSize(header[1], header[2]),
                               out |-> Append(st.out,
                                   Msg("meta", <<>>, header[1], header[2], ""))])
             ELSE IF MatchPerf(msg) THEN
                 ProcessLines([st EXCEPT !.buf = rest,
                     !.out = Append(st.out, Msg("analytics", <<>>, 0, 0, "gpu"))])
             ELSE IF MatchEnergy(msg) THEN
                 ProcessLines([st EXCEPT !.buf = rest,
                     !.out = Append(st.out, Msg("analytics", <<>>, 0, 0, "energy"))])
             ELSE ProcessLines([st EXCEPT !.buf = rest])

\* engineProc.stderr.on("data") of process p, for a chunk of k tokens
StderrData(p, k) ==
    /\ relayUp
    /\ k \in 1..Len(errPipe[p])
    /\ LET textChunk == SubSeq(errPipe[p], 1, k)
           r == ProcessLines([buf |-> stderrBuffer \o textChunk,
                              frameSize |-> frameSize, out |-> <<>>])
       IN  /\ stderrBuffer' = r.buf
           /\ frameSize' = r.frameSize
           /\ sent' = Send(sent, r.out)
    /\ errPipe' = [errPipe EXCEPT ![p] = SubSeq(@, k + 1, Len(@))]
    /\ UNCHANGED <<engineVars, client, relayUp, peer, engineProc, stdoutBuffer, readyState, procState, procCfg,
                   procPos, outWritten, outRead, lastCmd, quick>>

\* the stdout loop keeping one byte too many: subarray(ws.frameSize - 1)
RECURSIVE SendFrames_Shifted(_, _)
SendFrames_Shifted(st, fs) ==
    IF Len(st.buf) >= fs
    THEN SendFrames_Shifted([buf |-> SubSeq(st.buf, fs, Len(st.buf)),
                             out |-> Append(st.out,
                                    Msg("frame", SubSeq(st.buf, 1, fs), 0, 0, ""))],
                            fs)
    ELSE st

\* the while loop of the stdout data handler: st = [buf, out]
RECURSIVE SendFrames(_, _)
SendFrames(st, fs) ==
    IF Len(st.buf) >= fs
    THEN SendFrames([buf |-> SubSeq(st.buf, fs + 1, Len(st.buf)),
                     out |-> Append(st.out,
                                    Msg("frame", SubSeq(st.buf, 1, fs), 0, 0, ""))],
                    fs)
    ELSE st

\* engineProc.stdout.on("data") of process p, for a chunk of k bytes
StdoutData(p, k) ==
    /\ relayUp
    /\ k \in 1..(outWritten[p] - outRead[p])
    /\ outRead' = [outRead EXCEPT ![p] = @ + k]
    /\ LET chunk == Bytes(p, outRead[p], k) IN
       IF readyState # "OPEN" THEN UNCHANGED <<stdoutBuffer, sent>>
       ELSE IF frameSize = 0
            THEN /\ stdoutBuffer' = stdoutBuffer \o chunk
                 /\ UNCHANGED sent
            ELSE LET r == SendFrames([buf |-> stdoutBuffer \o chunk, out |-> <<>>],
                                     frameSize)
                 IN  /\ stdoutBuffer' = r.buf
                     /\ sent' = sent \o r.out
    /\ UNCHANGED <<engineVars, client, relayUp, peer, engineProc, stderrBuffer, frameSize, readyState, procState,
                   procCfg, procPos, outWritten, errPipe, lastCmd,
                   quick>>

\* an exit handler that clears the handle whichever process exited
onExit_Always(cur, p) == NULL

\* if (ws.engineProc === engineProc) ws.engineProc = null: the handle after
\* the exit handler of process p, cur being ws.engineProc before it
onExit(cur, p) == IF cur = p THEN NULL ELSE cur

\* process p ends (the kill signal takes effect, or main returns or exits) and
\* engineProc.on("exit") of it runs: the relay learns of the end by this event
ExitEvent(p) ==
    /\ relayUp
    /\ Alive(p)
    /\ procState' = [procState EXCEPT ![p] = "dead"]
    /\ engineProc' = onExit(engineProc, p)
    /\ UNCHANGED <<engineVars, client, relayUp, peer, stdoutBuffer, stderrBuffer, frameSize, readyState,
                   procCfg, procPos, outWritten, outRead, errPipe, sent, lastCmd,
                   quick>>

(***************************************************************************)
(* A second connection.  wss.on("connection") gives every ws its own       *)
(* engineProc, stdoutBuffer, stderrBuffer and frameSize; its message and   *)
(* close handlers are closures over that ws, and so are the stderr, stdout *)
(* and exit handlers startEngine(ws, cfg) attaches to the process it       *)
(* spawns.  The processes are those of the one machine: procState and the  *)
(* pipes are shared by the two connections.                                *)
(***************************************************************************)
\* wss.on("connection"): the fields of a new ws
PeerInit ==
    [engineProc |-> NULL, stdoutBuffer |-> <<>>, stderrBuffer |-> <<>>,
     frameSize |-> 0, readyState |-> "OPEN", sent |-> <<>>, procs |-> {}]

\* handlers that all work on the first connection, whichever spawned p
wsOf_First(p, theirs) == 1

\* the ws the handlers of process p are closed over: the one whose startEngine
\* call spawned p; theirs are the processes the second connection spawned
wsOf(p, theirs) == IF p \in theirs THEN 2 ELSE 1

\* the session fields of the second connection, as its handlers see them
PeerSession == [engineProc |-> peer.engineProc, stdoutBuffer |-> peer.stdoutBuffer,
                stderrBuffer |-> peer.stderrBuffer, frameSize |-> peer.frameSize,
                procState |-> procState]

SetPeer(s, log, rs, theirs) ==
    /\ peer' = [engineProc |-> s.engineProc, stdoutBuffer |-> s.stdoutBuffer,
                stderrBuffer |-> s.stderrBuffer, frameSize |-> s.frameSize,
                readyState |-> rs, sent |-> log, procs |-> theirs]
    /\ procState' = s.procState

\* ws.send on the second connection
PeerSend(log, msgs) == IF peer.readyState = "OPEN" THEN log \o msgs ELSE log

\* ws.on("message") of the second connection with {type: "start", cfg}
PeerStartCmd(nx, ny) ==
    /\ relayUp
    /\ peer.readyState = "OPEN"
    /\ NextProc \in Procs
    /\ SetPeer(startEngine(PeerSession, NextProc), <<>>, peer.readyState,
               peer.procs \cup {NextProc})
    /\ procCfg' = [procCfg EXCEPT ![NextProc] = [nx |-> nx, ny |-> ny]]
    /\ UNCHANGED <<engineVars, client, relayUp, engineProc, stdoutBuffer, stderrBuffer, frameSize,
                   readyState, procPos, outWritten, outRead, errPipe, sent, lastCmd,
                   quick>>

\* ws.on("message") of the second connection with {type: "stop"}
PeerStopCmd ==
    /\ relayUp
    /\ peer.readyState = "OPEN"
    /\ SetPeer(stopEngine(PeerSession), <<>>, peer.readyState, peer.procs)
    /\ UNCHANGED <<engineVars, client, relayUp, engineProc, stdoutBuffer, stderrBuffer, frameSize,
                   readyState, procCfg, procPos, outWritten, outRead, errPipe, sent,
                   lastCmd, quick>>

\* ws.on("close") of the second connection
PeerClose ==
    /\ relayUp
    /\ peer.readyState = "OPEN"
    /\ SetPeer(stopEngine(PeerSession), <<>>, "CLOSED", peer.procs)
    /\ UNCHANGED <<engineVars, client, relayUp, engineProc, stdoutBuffer, stderrBuffer, frameSize,
                   readyState, procCfg, procPos, outWritten, outRead, errPipe, sent,
                   lastCmd, quick>>

\* engineProc.stderr.on("data") of a process p the second connection spawned
PeerStderrData(p, k) ==
    /\ relayUp
    /\ k \in 1..Len(errPipe[p])
    /\ LET textChunk == SubSeq(errPipe[p], 1, k)
           r == ProcessLines([buf |-> peer.stderrBuffer \o textChunk,
                              frameSize |-> peer.frameSize, out |-> <<>>])
       IN  peer' = [peer EXCEPT !.stderrBuffer = r.buf,
                                !.frameSize = r.frameSize,
                                !.sent = PeerSend(@, r.out)]
    /\ errPipe' = [errPipe EXCEPT ![p] = SubSeq(@, k + 1, Len(@))]
    /\ UNCHANGED <<engineVars, client, relayUp, engineProc, stdoutBuffer, stderrBuffer, frameSize,
                   readyState, procState, procCfg, procPos, outWritten, outRead, sent,
                   lastCmd, quick>>

\* engineProc.stdout.on("data") of a process p the second connection spawned
PeerStdoutData(p, k) ==
    /\ relayUp
    /\ k \in 1..(outWritten[p] - outRead[p])
    /\ outRead' = [outRead EXCEPT ![p] = @ + k]
    /\ LET chunk == Bytes(p, outRead[p], k) IN
       IF peer.readyState # "OPEN" THEN UNCHANGED peer
       ELSE IF peer.frameSize = 0
            THEN peer' = [peer EXCEPT !.stdoutBuffer = @ \o chunk]
            ELSE LET r == SendFrames([buf |-> peer.stdoutBuffer \o chunk, out |-> <<>>],
                                     peer.frameSize)
                 IN  peer' = [peer EXCEPT !.stdoutBuffer = r.buf,
                                          !.sent = @ \o r.out]
    /\ UNCHANGED <<engineVars, client, relayUp, engineProc, stdoutBuffer, stderrBuffer, frameSize,
                   readyState, procState, procCfg, procPos, outWritten, errPipe, sent,
                   lastCmd, quick>>

\* engineProc.on("exit") of a process p the second connection spawned
PeerExitEvent(p) ==
    /\ relayUp
    /\ Alive(p)
    /\ procState' = [procState EXCEPT ![p] = "dead"]
    /\ peer' = [peer EXCEPT !.engineProc = onExit(@, p)]
    /\ UNCHANGED <<engineVars, client, relayUp, engineProc, stdoutBuffer, stderrBuffer, frameSize,
                   readyState, procCfg, procPos, outWritten, outRead, errPipe, sent,
                   lastCmd, quick>>

(***************************************************************************)
(* The engine processes as the relay sees them: main's output, from the    *)
(* HEADER line on, at the iterations that write something.  A process that *)
(* was sent the kill signal writes nothing more; what it wrote before stays *)
(* in its pipes until the relay's data handlers receive it.                *)
(***************************************************************************)
Min(a, b) == IF a < b THEN a ELSE b

\* the first iteration after n that writes a frame or a report
NextOutput(it) ==
    Min((it \div RelayFramesEvery + 1) * RelayFramesEvery,
        (it \div REPORT_STEPS + 1) * REPORT_STEPS)

\* text written at iteration n: if (n % REPORT_STEPS == 0 && n > 0)
ReportText(it) ==
    IF it % REPORT_STEPS = 0 /\ it > 0 THEN PerfLine \o EnergyLine ELSE <<>>

\* bytes written at iteration n: if (n % P.frames_every == 0) fwrite(...)
FrameBytes(it, nx, ny) ==
    IF it % RelayFramesEvery = 0 THEN nx * ny * FloatBytes ELSE 0

EngineOutput(p, last) ==
    /\ procState[p] = "running"
    /\ procPos[p] <= last
    /\ IF procPos[p] = -1
       THEN /\ errPipe' = [errPipe EXCEPT
                   ![p] = @ \o HeaderLine(procCfg[p].nx, procCfg[p].ny)]
            /\ procPos' = [procPos EXCEPT ![p] = 0]
            /\ UNCHANGED outWritten
       ELSE /\ errPipe' = [errPipe EXCEPT ![p] = @ \o ReportText(procPos[p])]
            /\ outWritten' = [outWritten EXCEPT
                   ![p] = @ + FrameBytes(procPos[p], procCfg[p].nx, procCfg[p].ny)]
            /\ procPos' = [procPos EXCEPT ![p] = NextOutput(@)]
    /\ UNCHANGED <<engineVars, client, relayUp, peer, engineProc, stdoutBuffer, stderrBuffer, frameSize, readyState,
                   procState, procCfg, outRead, sent, lastCmd, quick>>

(***************************************************************************)
(* The engine: quake_cuda_cpml.cu.  A float is a fixed-point number, FP     *)
(* units to 1.0, and every float operation rounds toward 0 to a unit.  expf *)
(* and tanhf are rational approximants that keep their value at 0, their    *)
(* sign, their monotonicity and their bounds.                               *)
(***************************************************************************)
Abs(x) == IF x < 0 THEN -x ELSE x
\* a / b rounded toward 0, as C does
Quot(a, b) == IF (a < 0) = (b < 0) THEN Abs(a) \div Abs(b) ELSE -(Abs(a) \div Abs(b))
FMul(a, b) == Quot(a * b, FP)
FDiv(a, b) == Quot(a * FP, b)

\* expf(x) for x <= 0: 1 / (1 + y + y^2/2 + y^3/6) with y = -x, 0 once below a unit
Expf(x) ==
    LET y == -x
        y2 == FMul(y, y)
        y3 == FMul(y2, y)
    IN  IF y >= 7 * FP THEN 0
        ELSE FDiv(FP, FP + y + (y2 \div 2) + (y3 \div 6))

\* tanhf(x): x (27 + x^2) / (27 + 9 x^2) for |x| < 3, else +-1
Tanhf(x) ==
    LET x2 == FMul(x, x) IN
    IF x >= 3 * FP THEN FP
    ELSE IF x <= -3 * FP THEN -FP
    ELSE Quot(x * (27 * FP + x2), 27 * FP + 9 * x2)

\* struct Params with its default values, floats in fixed point (dt = 6.0e-4f
\* is below one unit)
Params ==
    [nx |-> 512, ny |-> 512, dx |-> 5 * FP, dt |-> 0, steps |-> 1000000000,
     frames_every |-> 10, pml |-> 20, c0 |-> 3000 * FP, amp |-> 50, f0 |-> 8 * FP,
     sx |-> -1, sy |-> -1, cfl |-> 450, model |-> "homogeneous"]

\* The words of argv: an option name or other text that starts with no number,
\* the text of a number, a number followed by other characters ("12abc"), and
\* a number too large for an int or a float.
Opt(s) == [k |-> "txt", s |-> s, v |-> 0]
Txt(s) == [k |-> "txt", s |-> s, v |-> 0]
Num(v) == [k |-> "num", s |-> "#", v |-> v]
Pre(v) == [k |-> "pre", s |-> "#", v |-> v]
Big == [k |-> "big", s |-> "#", v |-> 0]

\* the option names parse_args compares with, and the field each one sets
OptionField ==
    [o \in {"--nx", "--ny", "--dx", "--dt", "--steps", "--frames_every", "--pml",
            "--sponge", "--c0", "--amp", "--f0", "--sx", "--sy", "--cfl", "--model"}
        |-> IF o = "--sponge" THEN "pml"
            ELSE CASE o = "--nx" -> "nx" [] o = "--ny" -> "ny" [] o = "--dx" -> "dx"
                   [] o = "--dt" -> "dt" [] o = "--steps" -> "steps"
                   [] o = "--frames_every" -> "frames_every" [] o = "--pml" -> "pml"
                   [] o = "--c0" -> "c0" [] o = "--amp" -> "amp" [] o = "--f0" -> "f0"
                   [] o = "--sx" -> "sx" [] o = "--sy" -> "sy" [] o = "--cfl" -> "cfl"
                   [] o = "--model" -> "model"]

\* std::stoi, std::stof reading everything (atoi style): text gives 0
stoi_Lenient(w) == [ok |-> TRUE, v |-> w.v]

\* std::stoi, std::stof: the number at the start of the word; they throw
\* std::invalid_argument when there is none and std::out_of_range when it
\* does not fit
stoi(w) == [ok |-> w.k \in {"num", "pre"}, v |-> w.v]

\* the for loop of parse_args from word i on: "ok" with the Params read,
\* "exit1" after die (std::exit(1)), "abort" after the exception nobody catches
RECURSIVE ParseFrom(_, _, _)
ParseFrom(argv, i, p) ==
    IF i > Len(argv) THEN [status |-> "ok", p |-> p]
    ELSE LET a == argv[i] IN
         IF a.s \notin DOMAIN OptionField THEN [status |-> "exit1", p |-> p]
         ELSE IF i + 1 > Len(argv) THEN [status |-> "exit1", p |-> p]
         ELSE IF a.s = "--model"
              THEN ParseFrom(argv, i + 2, [p EXCEPT !.model = argv[i + 1].s])
         ELSE LET r == stoi(argv[i + 1]) IN
              IF ~r.ok THEN [status |-> "abort", p |-> p]
              ELSE ParseFrom(argv, i + 2, [p EXCEPT ![OptionField[a.s]] = r.v])

\* Params parse_args(int argc, char** argv): the loop, then the source
\* location defaulting to the grid centre
parse_args(argv) ==
    LET r == ParseFrom(argv, 1, Params)
        p1 == IF r.p.sx < 0 THEN [r.p EXCEPT !.sx = r.p.nx \div 2] ELSE r.p
        p2 == IF p1.sy < 0 THEN [p1 EXCEPT !.sy = p1.ny \div 2] ELSE p1
    IN  IF r.status = "ok" THEN [status |-> "ok", p |-> p2] ELSE r

\* the command line that gives every option of the record a
Argv(a) ==
    <<Opt("--nx"), Num(a.nx), Opt("--ny"), Num(a.ny), Opt("--dx"), Num(a.dx),
      Opt("--dt"), Num(a.dt), Opt("--steps"), Num(a.steps),
      Opt("--frames_every"), Num(a.frames_every), Opt("--pml"), Num(a.pml),
      Opt("--c0"), Num(a.c0), Opt("--amp"), Num(a.amp), Opt("--f0"), Num(a.f0),
      Opt("--model"), Txt(a.model), Opt("--sx"), Num(a.sx), Opt("--sy"), Num(a.sy),
      Opt("--cfl"), Num(a.cfl)>>

\* float dtmax = P.cfl * P.dx / (1.41421356f * P.c0)
dtmax(p) == FDiv(FMul(p.cfl, p.dx), FMul(SQRT2, p.c0))

\* the clamp with the comparison turned round: if (P.dt < dtmax) P.dt = dtmax
ClampDt_Raises(p) == IF p.dt < dtmax(p) THEN [p EXCEPT !.dt = dtmax(p)] ELSE p

\* if (P.dt > dtmax) P.dt = dtmax
ClampDt(p) == IF p.dt > dtmax(p) THEN [p EXCEPT !.dt = dtmax(p)] ELSE p

Cells(nx, ny) == 0..(nx * ny - 1)

\* fillCField whose two_layer starts the fast rows one row later (j > mid)
fillCField_StrictMid(p) ==
    [k \in Cells(p.nx, p.ny) |->
        LET i == k % p.nx
            j == k \div p.nx
        IN  IF p.model = "homogeneous" THEN p.c0
            ELSE IF p.model = "two_layer"
                 THEN (IF j > p.ny \div 2 THEN FMul(p.c0, 1500) ELSE p.c0)
            ELSE IF p.model = "circle"
                 THEN LET r == FMul(p.nx * FP, 200)
                          r2 == FMul(r, r)
                          ddx == i - p.nx \div 2
                          ddy == j - p.ny \div 2
                          d2 == (ddx * ddx + ddy * ddy) * FP
                      IN  IF d2 < r2 THEN FMul(p.c0, 700) ELSE p.c0
            ELSE p.c0]

\* fillCField without its fallback: a field of zeros for a name it does not know
fillCField_NoFallback(p) ==
    [k \in Cells(p.nx, p.ny) |->
        LET i == k % p.nx
            j == k \div p.nx
        IN  IF p.model = "homogeneous" THEN p.c0
            ELSE IF p.model = "two_layer"
                 THEN (IF j >= p.ny \div 2 THEN FMul(p.c0, 1500) ELSE p.c0)
            ELSE IF p.model = "circle"
                 THEN LET r == FMul(p.nx * FP, 200)
                          r2 == FMul(r, r)
                          ddx == i - p.nx \div 2
                          ddy == j - p.ny \div 2
                          d2 == (ddx * ddx + ddy * ddy) * FP
                      IN  IF d2 < r2 THEN FMul(p.c0, 700) ELSE p.c0
            ELSE 0]

\* void fillCField(const Params& p, std::vector<float>& cfield)
fillCField(p) ==
    [k \in Cells(p.nx, p.ny) |->
        LET i == k % p.nx
            j == k \div p.nx
        IN  IF p.model = "homogeneous" THEN p.c0
            ELSE IF p.model = "two_layer"
                 THEN (IF j >= p.ny \div 2 THEN FMul(p.c0, 1500) ELSE p.c0)
            ELSE IF p.model = "circle"
                 THEN LET r == FMul(p.nx * FP, 200)
                          r2 == FMul(r, r)
                          ddx == i - p.nx \div 2
                          ddy == j - p.ny \div 2
                          d2 == (ddx * ddx + ddy * ddy) * FP
                      IN  IF d2 < r2 THEN FMul(p.c0, 700) ELSE p.c0
            ELSE p.c0]

\* distance of cell (i, j) to the nearest domain edge
EdgeDist(nx, ny, i, j) == Min(Min(i, nx - 1 - i), Min(j, ny - 1 - j))

Pow4(x) == x * x * x * x

\* make_sponge that takes the thickness without its sign
make_sponge_AbsWidth(nx, ny, w) ==
    [k \in Cells(nx, ny) |->
        LET d == EdgeDist(nx, ny, k % nx, k \div nx)
        IN  IF w = 0 THEN [n |-> 0, d |-> 1]
            ELSE IF d < Abs(w) THEN [n |-> Pow4(Abs(w) - d), d |-> Pow4(Abs(w))]
            ELSE [n |-> 0, d |-> 1]]

\* make_sponge with the profile turned round: r = float(d) / float(w)
make_sponge_Inverted(nx, ny, w) ==
    [k \in Cells(nx, ny) |->
        LET d == EdgeDist(nx, ny, k % nx, k \div nx)
        IN  IF w <= 0 THEN [n |-> 0, d |-> 1]
            ELSE IF d < w THEN [n |-> Pow4(d), d |-> Pow4(w)]
            ELSE [n |-> 0, d |-> 1]]

\* std::vector<float> make_sponge(int nx, int ny, int w): powf(r, 4.0f) with
\* r = float(w - d) / float(w), kept as the fraction (w - d)^4 / w^4
make_sponge(nx, ny, w) ==
    [k \in Cells(nx, ny) |->
        LET d == EdgeDist(nx, ny, k % nx, k \div nx)
        IN  IF w <= 0 THEN [n |-> 0, d |-> 1]
            ELSE IF d < w THEN [n |-> Pow4(w - d), d |-> Pow4(w)]
            ELSE [n |-> 0, d |-> 1]]

\* the sponge block of step_kernel: un *= max(0, 1 - 0.03 * sp) where the
\* mask value sp of the cell is positive
Damp(sp, un) ==
    LET d0 == FP - (30 * sp.n) \div sp.d
        d == IF d0 < 0 THEN 0 ELSE d0
    IN  IF sp.n > 0 THEN FMul(un, d) ELSE un

\* the cells a thread of step_kernel or add_source may write
Interior(nx, ny, i, j) == ~(i <= 0 \/ j <= 0 \/ i >= nx - 1 \/ j >= ny - 1)

\* __global__ void step_kernel(u0, u1, u2, c, sponge, nx, ny, dt, dx, alpha):
\* the contents of u2 after every thread has run
step_kernel(u0, u1, u2, c, sponge, nx, ny, dt, dx, alpha) ==
    [k \in Cells(nx, ny) |->
        IF ~Interior(nx, ny, k % nx, k \div nx) THEN u2[k]
        ELSE
        LET uC == u1[k]
            uL == u1[k - 1]
            uR == u1[k + 1]
            uD == u1[k - nx]
            uU == u1[k + nx]
            lap == uL + uR + uD + uU - 4 * uC
            dudt == FDiv(u1[k] - u0[k], dt)
            dudtL == FDiv(u1[k - 1] - u0[k - 1], dt)
            dudtR == FDiv(u1[k + 1] - u0[k + 1], dt)
            dudtD == FDiv(u1[k - nx] - u0[k - nx], dt)
            dudtU == FDiv(u1[k + nx] - u0[k + nx], dt)
            lap_dudt == dudtL + dudtR + dudtD + dudtU - 4 * dudt
            cdt == FDiv(FMul(c[k], dt), dx)
            coef == FMul(cdt, cdt)
            un == 2 * uC - u0[k] + FMul(coef, lap) - FMul(FMul(alpha, dt), lap_dudt)
        IN  Tanhf(FMul(900, Damp(sponge[k], un)))]

\* float ricker(float t, float f0)
ricker(tt, f0) ==
    LET a == FMul(FMul(PI, f0), tt - FDiv(FP, f0))
        a2 == FMul(a, a)
    IN  IF Abs(a) >= 7 * FP THEN 0
        ELSE FMul(FP - 2 * a2, Expf(-a2))

\* the weight of add_source at offset (ddx, ddy): expf(-0.5f * (dx*dx + dy*dy) / 9.0f)
SourceWeight(ddx, ddy) == Expf(-(((ddx * ddx + ddy * ddy) * FP) \div 18))

\* add_source adding the weight alone: atomicAdd(&u[y * nx + x], w)
add_source_NoVal(u, nx, ny, sx, sy, val) ==
    [k \in Cells(nx, ny) |->
        LET x == k % nx
            y == k \div nx
        IN  IF /\ Abs(x - sx) <= SourceR /\ Abs(y - sy) <= SourceR
               /\ Interior(nx, ny, x, y)
            THEN u[k] + SourceWeight(x - sx, y - sy)
            ELSE u[k]]

\* add_source with R = 2
add_source_Radius2(u, nx, ny, sx, sy, val) ==
    [k \in Cells(nx, ny) |->
        LET x == k % nx
            y == k \div nx
        IN  IF /\ Abs(x - sx) <= 2 /\ Abs(y - sy) <= 2
               /\ Interior(nx, ny, x, y)
            THEN u[k] + FMul(val, SourceWeight(x - sx, y - sy))
            ELSE u[k]]

\* add_source without the test that skips the boundary ring
add_source_Ring(u, nx, ny, sx, sy, val) ==
    [k \in Cells(nx, ny) |->
        LET x == k % nx
            y == k \div nx
        IN  IF Abs(x - sx) <= SourceR /\ Abs(y - sy) <= SourceR
            THEN u[k] + FMul(val, SourceWeight(x - sx, y - sy))
            ELSE u[k]]

\* __global__ void add_source(float* u, int nx, int ny, int sx, int sy, float val)
add_source(u, nx, ny, sx, sy, val) ==
    [k \in Cells(nx, ny) |->
        LET x == k % nx
            y == k \div nx
        IN  IF /\ Abs(x - sx) <= SourceR /\ Abs(y - sy) <= SourceR
               /\ Interior(nx, ny, x, y)
            THEN u[k] + FMul(val, SourceWeight(x - sx, y - sy))
            ELSE u[k]]

RECURSIVE SumSq(_, _)
SumSq(u, k) == IF k < 0 THEN 0 ELSE FMul(u[k], u[k]) + SumSq(u, k - 1)

\* sum_energy_kernel over all blocks: the sum of u[i] * u[i]
sum_energy(u, N) == SumSq(u, N - 1)

Zeros(nx, ny) == [k \in Cells(nx, ny) |-> 0]

\* main: parse_args, then the clamp of dt; die writes its message to stderr
\* and the process ends in parse_args when a word of argv is refused
MainResolve ==
    /\ pc = "start"
    /\ LET r == parse_args(args) IN
       IF r.status = "ok"
       THEN /\ P' = ClampDt(r.p)
            /\ pc' = "build"
            /\ UNCHANGED events
       ELSE /\ P' = P
            /\ pc' = r.status
            /\ events' = IF r.status = "exit1" THEN Append(events, "DIAG")
                         ELSE events
    /\ UNCHANGED <<relayVars, client, deviceVars, args, h_c, h_sponge, mem, d_u0, d_u1, d_u2, n, t,
                   acc, lastFrame, lastEnergy>>

\* main: fillCField, make_sponge, cudaMalloc and cudaMemset of the buffers
MainBuild ==
    /\ pc = "build"
    /\ h_c' = fillCField(P)
    /\ h_sponge' = make_sponge(P.nx, P.ny, P.pml)
    /\ mem' = [b \in 0..2 |-> Zeros(P.nx, P.ny)]
    /\ d_u0' = 0 /\ d_u1' = 1 /\ d_u2' = 2
    /\ pc' = "header"
    /\ UNCHANGED <<relayVars, client, deviceVars, args, P, n, t, acc, events, lastFrame, lastEnergy>>

\* header written twice: a second fprintf of the HEADER line
WriteHeader_Twice(ev) == ev \o <<"HEADER", "HEADER">>

\* fprintf(stderr, "HEADER nx=%d ny=%d dt=%g frames_every=%d\n", ...)
WriteHeader(ev) == Append(ev, "HEADER")

\* main: the HEADER line, then float t = 0, acc = 0 and n = 0
MainHeader ==
    /\ pc = "header"
    /\ events' = WriteHeader(events)
    /\ n' = 0 /\ t' = 0 /\ acc' = 0
    /\ pc' = "loop"
    /\ UNCHANGED <<relayVars, client, deviceVars, args, P, h_c, h_sponge, mem, d_u0, d_u1, d_u2,
                   lastFrame, lastEnergy>>

\* for (...; n < P.steps; ...): one more iteration, or cudaFree and return 0
MainLoop ==
    /\ pc = "loop"
    /\ pc' = IF n < P.steps THEN "step" ELSE "done"
    /\ UNCHANGED <<relayVars, client, deviceVars, args, P, h_c, h_sponge, mem, d_u0, d_u1, d_u2, n,
                   t, acc, events, lastFrame, lastEnergy>>

\* A kernel launch <<<...>>> returns at once: the kernel is queued on the
\* default stream with the values of its arguments at the launch, and `it`
\* notes the iteration that launched it.
Launch(kind, u0, u1, u2, val) ==
    [kind |-> kind, it |-> n, u0 |-> u0, u1 |-> u1, u2 |-> u2, val |-> val]

\* a device on which a queued kernel begins whatever else is executing
StreamReady_Concurrent(exec) == TRUE

\* the default stream executes its kernels one at a time, in launch order
StreamReady(exec) == exec = {}

\* the host is blocked (cudaEventSynchronize of an event recorded after the
\* launches, cudaMemcpy) until all the work launched before has completed
DeviceIdle == stream = <<>> /\ running = {}

\* the kernel at the head of the stream begins
KernelBegin ==
    /\ stream # <<>>
    /\ StreamReady(running)
    /\ running' = running \cup {Head(stream)}
    /\ stream' = Tail(stream)
    /\ UNCHANGED <<relayVars, client, args, pc, P, h_c, h_sponge, mem, d_u0, d_u1, d_u2,
                   n, t, acc, events, lastFrame, lastEnergy, lastDone>>

\* a kernel completes: every thread of it has run and its writes are in the
\* buffer its argument named
KernelEnd(op) ==
    /\ op \in running
    /\ mem' = [mem EXCEPT ![op.u2] =
                  IF op.kind = "step"
                  THEN step_kernel(mem[op.u0], mem[op.u1], mem[op.u2], h_c,
                                   h_sponge, P.nx, P.ny, P.dt, P.dx, VISC_ALPHA)
                  ELSE add_source(mem[op.u2], P.nx, P.ny, P.sx, P.sy, op.val)]
    /\ running' = running \ {op}
    /\ lastDone' = [lastDone EXCEPT ![op.kind] = op.it]
    /\ UNCHANGED <<relayVars, client, args, pc, P, h_c, h_sponge, d_u0, d_u1, d_u2, n, t,
                   acc, events, lastFrame, lastEnergy, stream>>

\* step_kernel<<<grid, block>>>(d_u0, d_u1, d_u2, d_c, d_s, ...)
MainStep ==
    /\ pc = "step"
    /\ stream' = Append(stream, Launch("step", d_u0, d_u1, d_u2, 0))
    /\ pc' = "source"
    /\ UNCHANGED <<relayVars, client, args, P, h_c, h_sponge, mem, d_u0, d_u1, d_u2, n, t,
                   acc, events, lastFrame, lastEnergy, running, lastDone>>

\* float src = P.amp * ricker(t, P.f0); add_source<<<1, 1>>>(d_u2, ...)
MainSource ==
    /\ pc = "source"
    /\ LET src == FMul(P.amp, ricker(t, P.f0)) IN
       stream' = Append(stream, Launch("source", d_u2, d_u2, d_u2, src))
    /\ pc' = "rotate"
    /\ UNCHANGED <<relayVars, client, args, P, h_c, h_sponge, mem, d_u0, d_u1, d_u2, n, t,
                   acc, events, lastFrame, lastEnergy, running, lastDone>>

\* the rotation made the other way round
Rotate_Back(u0, u1, u2) == <<u2, u0, u1>>

\* a swap of two handles in place of the rotation of three
Rotate_Swap(u0, u1, u2) == <<u1, u0, u2>>

\* float* tmp = d_u0; d_u0 = d_u1; d_u1 = d_u2; d_u2 = tmp: the new handles
Rotate(u0, u1, u2) == <<u1, u2, u0>>

\* the rotation of the handles and t += P.dt; the host does not wait here
MainRotate ==
    /\ pc = "rotate"
    /\ LET r == Rotate(d_u0, d_u1, d_u2) IN
       d_u0' = r[1] /\ d_u1' = r[2] /\ d_u2' = r[3]
    /\ t' = t + P.dt
    /\ pc' = "sync"
    /\ UNCHANGED <<relayVars, client, deviceVars, args, P, h_c, h_sponge, mem, n, acc, events,
                   lastFrame, lastEnergy>>

\* cudaEventRecord(eEnd); cudaEventSynchronize(eEnd);
\* cudaEventElapsedTime(&ms, eBeg, eEnd); acc += ms
MainSync(ms) ==
    /\ pc = "sync"
    /\ DeviceIdle
    /\ acc' = acc + ms
    /\ pc' = "report"
    /\ UNCHANGED <<relayVars, client, deviceVars, args, P, h_c, h_sponge, mem, d_u0, d_u1, d_u2,
                   n, t, events, lastFrame, lastEnergy>>

\* a report condition that holds at iteration 0 as well
ReportDue_AtZero(it) == it % REPORT_STEPS = 0

\* n % REPORT_STEPS == 0 && n > 0
ReportDue(it) == it % REPORT_STEPS = 0 /\ it > 0

\* a frame condition that skips iteration 0
FrameDue_SkipZero(it, every) == it % every = 0 /\ it > 0

\* n % P.frames_every == 0
FrameDue(it, every) == it % every = 0

\* if (n % REPORT_STEPS == 0 && n > 0): the PERF line, the energy (the
\* reduction kernel and the blocking cudaMemcpy of its result), the ENERGY line
MainReport ==
    /\ pc = "report"
    /\ DeviceIdle
    /\ IF ReportDue(n)
       THEN /\ events' = events \o <<"PERF", "ENERGY">>
            /\ acc' = 0
            /\ lastEnergy' = sum_energy(mem[d_u1], P.nx * P.ny)
       ELSE UNCHANGED <<events, acc, lastEnergy>>
    /\ pc' = "frame"
    /\ UNCHANGED <<relayVars, client, deviceVars, args, P, h_c, h_sponge, mem, d_u0, d_u1, d_u2, n,
                   t, lastFrame>>

\* if (n % P.frames_every == 0): cudaMemcpy of d_u1 and fwrite; then ++n
MainFrame ==
    /\ pc = "frame"
    /\ DeviceIdle
    /\ IF FrameDue(n, P.frames_every)
       THEN /\ lastFrame' = mem[d_u1]
            /\ events' = Append(events, "FRAME")
       ELSE UNCHANGED <<lastFrame, events>>
    /\ n' = n + 1
    /\ pc' = "loop"
    /\ UNCHANGED <<relayVars, client, deviceVars, args, P, h_c, h_sponge, mem, d_u0, d_u1, d_u2, t,
                   acc, lastEnergy>>

\* the engine variables before main has run, for the command line a
EngineAt(a) ==
    /\ args = a
    /\ pc = "start"
    /\ P = Params
    /\ h_c = <<>>
    /\ h_sponge = <<>>
    /\ mem = <<>>
    /\ d_u0 = 0 /\ d_u1 = 0 /\ d_u2 = 0
    /\ n = 0 /\ t = 0 /\ acc = 0
    /\ events = <<>>
    /\ lastFrame = <<>>
    /\ lastEnergy = -1
    /\ stream = <<>>
    /\ running = {}
    /\ lastDone = [step |-> -1, source |-> -1]

\* option values for a small grid, floats in fixed point; cfl is CFL_DEFAULT
\* and sx, sy are the -1 that parse_args replaces by the centre
DefaultArgs ==
    [nx |-> 5, ny |-> 5, dx |-> 1 * FP, dt |-> 10, steps |-> 0,
     frames_every |-> 10, pml |-> 0, c0 |-> 5 * FP, amp |-> 0, f0 |-> 1 * FP,
     sx |-> -1, sy |-> -1, cfl |-> 450, model |-> "homogeneous"]

(***************************************************************************)
(* The client: public/app.js.  Every handler runs to its end before the    *)
(* next event is handled.  A frame is known by its number in the order of  *)
(* receipt.                                                                *)
(***************************************************************************)
\* let ws = null, frameQueue = [], isPlaying = false; then, at the end of the
\* DOMContentLoaded handler: isPlaying = true, the first animation frame is
\* requested, and connect() opens the socket
PageLoaded ==
    [readyState |-> "CONNECTING", frameQueue |-> <<>>, isPlaying |-> TRUE,
     frameTex |-> 0, colormap |-> "turbo",
     received |-> 0, cleared |-> 0, tick |-> 0, rendered |-> <<>>]

ClientInit == client = PageLoaded

\* ws.onmessage with a binary frame: frameQueue.push(frame)
onFrame(c) ==
    [c EXCEPT !.received = @ + 1,
              !.frameQueue = Append(@, c.received + 1)]

\* ws.onmessage with a meta message: frameQueue = []
onMeta(c) == [c EXCEPT !.frameQueue = <<>>, !.cleared = c.received]

\* an animation loop that takes the newest frame: frameQueue.pop()
animationLoop_Pop(c) ==
    LET ticked == [c EXCEPT !.tick = @ + 1] IN
    IF ~c.isPlaying THEN ticked
    ELSE IF Len(c.frameQueue) > 0
    THEN LET frame == c.frameQueue[Len(c.frameQueue)] IN
         [ticked EXCEPT !.frameQueue = SubSeq(@, 1, Len(@) - 1),
                        !.frameTex = frame,
                        !.rendered = Append(@, [frame |-> frame, tick |-> ticked.tick,
                                                cleared |-> c.cleared])]
    ELSE ticked

\* animationLoop(timestamp), the callback of one animation tick: the oldest
\* frame of the queue, if any, is shifted out and given to renderer.update,
\* which uploads it to the frame texture and draws it
animationLoop(c) ==
    LET ticked == [c EXCEPT !.tick = @ + 1] IN
    IF ~c.isPlaying THEN ticked
    ELSE IF Len(c.frameQueue) > 0
    THEN LET frame == Head(c.frameQueue) IN
         [ticked EXCEPT !.frameQueue = Tail(@),
                        !.frameTex = frame,
                        !.rendered = Append(@, [frame |-> frame, tick |-> ticked.tick,
                                                cleared |-> c.cleared])]
    ELSE ticked

\* startBtn.onclick: with the socket open, frameQueue = [] and the start
\* command is sent; else connect() makes a new socket
startBtn_onclick(c) ==
    IF c.readyState = "OPEN"
    THEN [c EXCEPT !.frameQueue = <<>>, !.cleared = c.received]
    ELSE [c EXCEPT !.readyState = "CONNECTING"]

\* stopBtn.onclick: with the socket open, the stop command is sent and
\* frameQueue = []; else nothing
stopBtn_onclick(c) ==
    IF c.readyState = "OPEN"
    THEN [c EXCEPT !.frameQueue = <<>>, !.cleared = c.received]
    ELSE c

\* colormapSelect.onchange: renderer.setColormap and renderer.render(), which
\* draws the frame texture as it is
colormapSelect_onchange(c, mapType) == [c EXCEPT !.colormap = mapType]

ClientStep(c) ==
    /\ client' = c
    /\ UNCHANGED <<relayVars, engineVars>>

\* ws.onopen
WsOpen ==
    /\ client.readyState = "CONNECTING"
    /\ ClientStep([client EXCEPT !.readyState = "OPEN"])

\* ws.onclose
WsClose ==
    /\ client.readyState # "CLOSED"
    /\ ClientStep([client EXCEPT !.readyState = "CLOSED"])

\* a binary message arrives on the open socket
FrameArrives ==
    /\ client.readyState = "OPEN"
    /\ client.received < MaxFrames
    /\ ClientStep(onFrame(client))

\* a meta message arrives on the open socket
MetaArrives ==
    /\ client.readyState = "OPEN"
    /\ ClientStep(onMeta(client))

\* the browser runs the animation frame callback
Tick ==
    /\ client.tick < MaxTicks
    /\ ClientStep(animationLoop(client))

StartClick == ClientStep(startBtn_onclick(client))

StopClick == ClientStep(stopBtn_onclick(client))

ColormapChange ==
    \E mapType \in {"turbo", "seismic"} :
        ClientStep(colormapSelect_onchange(client, mapType))

RelayInit ==
    /\ relayUp = TRUE
    /\ peer = PeerInit
    /\ engineProc = NULL
    /\ stdoutBuffer = <<>>
    /\ stderrBuffer = <<>>
    /\ frameSize = 0
    /\ readyState = "OPEN"
    /\ procState = [p \in Procs |-> "none"]
    /\ procCfg = [p \in Procs |-> [nx |-> 0, ny |-> 0]]
    /\ procPos = [p \in Procs |-> -1]
    /\ outWritten = [p \in Procs |-> 0]
    /\ outRead = [p \in Procs |-> 0]
    /\ errPipe = [p \in Procs |-> <<>>]
    /\ sent = <<>>
    /\ lastCmd = "none"
    /\ quick = {}

\* no engine of its own is followed while the relay is
EngineOff ==
    /\ args = <<>>
    /\ pc = "off"
    /\ P = Params
    /\ h_c = <<>>
    /\ h_sponge = <<>>
    /\ mem = <<>>
    /\ d_u0 = 0 /\ d_u1 = 0 /\ d_u2 = 0
    /\ n = 0 /\ t = 0 /\ acc = 0
    /\ events = <<>>
    /\ lastFrame = <<>>
    /\ lastEnergy = -1
    /\ stream = <<>>
    /\ running = {}
    /\ lastDone = [step |-> -1, source |-> -1]

Init == RelayInit /\ ClientInit /\ EngineOff

\* A session with restarts, every run on a 1 by 1 grid; a data event delivers
\* all that is pending.
Next ==
    \/ StartCmd(1, 1)
    \/ StopCmd
    \/ Close
    \/ \E p \in Procs : StderrData(p, Len(errPipe[p]))
    \/ \E p \in Procs : StdoutData(p, outWritten[p] - outRead[p])
    \/ \E p \in Procs : ExitEvent(p)
    \/ \E p \in Procs : EngineOutput(p, SessIter)

Spec == Init /\ [][Next]_vars

\* The session with the messages that are no commands and with launches
\* that fail.
NextCtl ==
    \/ StartCmd(1, 1)
    \/ StopCmd
    \/ Close
    \/ \E kind \in {"notjson", "unknown", "nocfg"} : BadMsg(kind)
    \/ StartCmdFail(1, 1)
    \/ \E p \in Procs : SpawnError(p)
    \/ \E p \in Procs : StderrData(p, Len(errPipe[p]))
    \/ \E p \in Procs : StdoutData(p, outWritten[p] - outRead[p])
    \/ \E p \in Procs : ExitEvent(p)
    \/ \E p \in Procs : EngineOutput(p, SessIter)

SpecCtl == Init /\ [][NextCtl]_vars

\* The session with restarts on grids of two sizes, 1 by 2 and 1 by 1 in turn.
NextSizes ==
    \/ StartCmd(1, 1 + (NextProc % 2))
    \/ StopCmd
    \/ Close
    \/ \E p \in Procs : StderrData(p, Len(errPipe[p]))
    \/ \E p \in Procs : StdoutData(p, outWritten[p] - outRead[p])
    \/ \E p \in Procs : ExitEvent(p)
    \/ \E p \in Procs : EngineOutput(p, SessIter)

SpecSizes == Init /\ [][NextSizes]_vars

\* Two connections, each with one engine, the first on a 1 by 1 grid and the
\* second on a 1 by 2 grid.  The events of a process go to the handlers
\* startEngine attached to it, which work on the ws of wsOf.  The launch of the
\* first connection's engine may fail.
NextPair ==
    \/ lastCmd = "none" /\ StartCmd(1, 1)
    \/ lastCmd = "none" /\ StartCmdFail(1, 1)
    \/ \E p \in Procs : SpawnError(p)
    \/ StopCmd
    \/ Close
    \/ peer.procs = {} /\ PeerStartCmd(1, 2)
    \/ PeerStopCmd
    \/ PeerClose
    \/ \E p \in Procs : wsOf(p, peer.procs) = 1 /\ StderrData(p, Len(errPipe[p]))
    \/ \E p \in Procs : wsOf(p, peer.procs) = 2 /\ PeerStderrData(p, Len(errPipe[p]))
    \/ \E p \in Procs : wsOf(p, peer.procs) = 1 /\ StdoutData(p, outWritten[p] - outRead[p])
    \/ \E p \in Procs : wsOf(p, peer.procs) = 2 /\ PeerStdoutData(p, outWritten[p] - outRead[p])
    \/ \E p \in Procs : wsOf(p, peer.procs) = 1 /\ ExitEvent(p)
    \/ \E p \in Procs : wsOf(p, peer.procs) = 2 /\ PeerExitEvent(p)
    \/ \E p \in Procs : EngineOutput(p, SessIter)

SpecPair == Init /\ [][NextPair]_vars

\* The page of the client with whatever the relay sends it and whatever the
\* user does, in any order.
NextClient ==
    \/ WsOpen
    \/ WsClose
    \/ FrameArrives
    \/ MetaArrives
    \/ Tick
    \/ StartClick
    \/ StopClick
    \/ ColormapChange

SpecClient == Init /\ [][NextClient]_vars

\* The stderr text of one engine, whatever it is: up to MaxLines lines, each a
\* HEADER, PERF or ENERGY line, another line or an empty one, and perhaps the
\* beginning of one more line.
RECURSIVE TextsOf(_)
TextsOf(k) ==
    IF k = 0 THEN {<<>>}
    ELSE LET shorter == TextsOf(k - 1) IN
         shorter \cup
         {tx \o line : tx \in shorter,
                       line \in {HeaderLine(1, 1), HeaderLine(2, 1), PerfLine,
                                 EnergyLine, OtherLine, <<NL>>}}

StderrTexts ==
    {tx \o part : tx \in TextsOf(MaxLines),
                  part \in {<<>>, <<Tok("PERF", 0, 0)>>}}

\* the session after a start command, the engine having written the text tx
\* to its stderr and nothing of it received yet
InitLines ==
    /\ EngineOff
    /\ ClientInit
    /\ relayUp = TRUE
    /\ peer = PeerInit
    /\ engineProc = 1
    /\ stdoutBuffer = <<>>
    /\ stderrBuffer = <<>>
    /\ frameSize = 0
    /\ readyState = "OPEN"
    /\ procState = [p \in Procs |-> IF p = 1 THEN "running" ELSE "none"]
    /\ procCfg = [p \in Procs |-> [nx |-> 0, ny |-> 0]]
    /\ procPos = [p \in Procs |-> -1]
    /\ outWritten = [p \in Procs |-> 0]
    /\ outRead = [p \in Procs |-> 0]
    /\ \E tx \in StderrTexts : errPipe = [p \in Procs |-> IF p = 1 THEN tx ELSE <<>>]
    /\ sent = <<>>
    /\ lastCmd = "start"
    /\ quick = {}

\* the data events of the stderr pipe, each with a chunk of any length
NextLines == \E k \in 1..Len(errPipe[1]) : StderrData(1, k)

SpecLines == InitLines /\ [][NextLines]_vars

\* A single run; a data event delivers a chunk of any length.
NextRun ==
    \/ \E ny \in 1..MaxNy : NextProc = 1 /\ StartCmd(1, ny)
    \/ StopCmd
    \/ Close
    \/ \E k \in 1..Len(errPipe[1]) : StderrData(1, k)
    \/ \E k \in 1..(outWritten[1] - outRead[1]) : StdoutData(1, k)
    \/ ExitEvent(1)
    \/ EngineOutput(1, RunIter)

SpecRun == Init /\ [][NextRun]_vars

\* The single run with the event loop of Node at work: data pending in a pipe
\* of the engine is delivered to its handler sooner or later.  Nothing is
\* required of the engine, which writes its next output when it gets there.
SpecRunFair ==
    /\ Init
    /\ [][NextRun]_vars
    /\ WF_vars(\E k \in 1..Len(errPipe[1]) : StderrData(1, k))
    /\ WF_vars(\E k \in 1..(outWritten[1] - outRead[1]) : StdoutData(1, k))

(***************************************************************************)
(* One engine process from main's first line to its return.                *)
(***************************************************************************)
\* a run of MaxSteps iterations with a source, a sponge and a clamped dt
BaseArgs ==
    [DefaultArgs EXCEPT !.nx = 7, !.ny = 6, !.dt = 500, !.steps = MaxSteps,
                        !.frames_every = 60, !.pml = 2, !.amp = 5 * FP,
                        !.f0 = 160]

\* a short run whose source pulse peaks in its second iteration
EdgeArgs == [BaseArgs EXCEPT !.steps = 4, !.frames_every = 1, !.f0 = 8 * FP]

EngineArgs ==
    { BaseArgs,
      [BaseArgs EXCEPT !.amp = 0],
      [BaseArgs EXCEPT !.amp = 0, !.model = "two_layer", !.dt = 10, !.pml = 0,
                       !.f0 = FP],
      [BaseArgs EXCEPT !.steps = 0],
      [BaseArgs EXCEPT !.steps = 3, !.frames_every = 1],
      [BaseArgs EXCEPT !.steps = 5, !.frames_every = 2, !.amp = 0],
      [BaseArgs EXCEPT !.model = "two_layer", !.dt = 10, !.f0 = FP],
      [BaseArgs EXCEPT !.model = "circle", !.pml = 0, !.sx = 1, !.sy = 1],
      [EdgeArgs EXCEPT !.sx = 0, !.sy = 0],
      [EdgeArgs EXCEPT !.sx = BaseArgs.nx - 1, !.sy = 3],
      [EdgeArgs EXCEPT !.sx = 1, !.sy = BaseArgs.ny - 2],
      [EdgeArgs EXCEPT !.sx = BaseArgs.nx + 1, !.sy = 3] }

\* float ms; cudaEventElapsedTime(&ms, eBeg, eEnd): the time of a step, in units
StepTimes == {1}

InitEngine == RelayInit /\ ClientInit /\ \E a \in EngineArgs : EngineAt(Argv(a))

NextEngine ==
    \/ MainResolve
    \/ MainBuild
    \/ MainHeader
    \/ MainLoop
    \/ MainStep
    \/ MainSource
    \/ MainRotate
    \/ \E ms \in StepTimes : MainSync(ms)
    \/ KernelBegin
    \/ \E op \in running : KernelEnd(op)
    \/ MainReport
    \/ MainFrame

SpecEngine == InitEngine /\ [][NextEngine]_vars

(***************************************************************************)
(* The resolution of dt alone, over a range of requested values.           *)
(***************************************************************************)
ResolveArgs ==
    { [DefaultArgs EXCEPT !.dt = dt, !.cfl = cfl, !.dx = dx, !.c0 = c0] :
        dt \in {k * DtUnit : k \in 0..MaxDt},
        cfl \in {k * 450 : k \in 1..MaxCfl},
        dx \in {k * FP : k \in 1..MaxDx},
        c0 \in {k * FP : k \in 1..MaxC0} }

InitResolve == RelayInit /\ ClientInit /\ \E a \in ResolveArgs : EngineAt(Argv(a))

NextResolve == MainResolve

SpecResolve == InitResolve /\ [][NextResolve]_vars

(***************************************************************************)
(* The sponge mask alone, over a range of grids and thicknesses.           *)
(***************************************************************************)
SpongeArgs ==
    { [DefaultArgs EXCEPT !.nx = nx, !.ny = ny, !.pml = w] :
        nx \in 1..MaxGrid, ny \in 1..MaxGrid, w \in (-1)..MaxPml }

InitSponge == RelayInit /\ ClientInit /\ \E a \in SpongeArgs : EngineAt(Argv(a))

NextSponge == MainResolve \/ MainBuild

SpecSponge == InitSponge /\ [][NextSponge]_vars

(***************************************************************************)
(* The command lines of SpecParse: a line that gives every option twice    *)
(* (the later value of an option replaces the earlier one, so             *)
(* no default of struct Params is left in use), and that line with one     *)
(* word replaced by another, cut short after an option name, or with one   *)
(* more word at its end.  main runs up to the HEADER line.                 *)
(***************************************************************************)
ParseBase == Argv(DefaultArgs) \o Argv(DefaultArgs)

ParseWords ==
    {Txt("abc"), Txt(""), Txt("--foo"), Txt("--steps"), Big, Pre(2), Num(1)}

ParseArgvs ==
    {ParseBase}
    \cup {[ParseBase EXCEPT ![i] = w] : i \in 1..Len(ParseBase), w \in ParseWords}
    \cup {SubSeq(ParseBase, 1, k) : k \in {j \in 1..Len(ParseBase) : j % 2 = 1}}
    \cup {Append(ParseBase, w) : w \in ParseWords}

InitParse == RelayInit /\ ClientInit /\ \E a \in ParseArgvs : EngineAt(a)

NextParse == MainResolve \/ MainBuild \/ MainHeader

SpecParse == InitParse /\ [][NextParse]_vars

(***************************************************************************)
(* The velocity fields of SpecField: every grid up to MaxGrid by MaxGrid,   *)
(* two velocities, the three model names of fillCField, and names it does  *)
(* not know.  main runs up to the HEADER line.                             *)
(***************************************************************************)
ModelNames ==
    {"homogeneous", "two_layer", "circle", "", "#", "Two_Layer", "layered",
     "--model"}

FieldArgs ==
    {[DefaultArgs EXCEPT !.nx = x, !.ny = y, !.c0 = c * FP, !.model = m] :
        x \in 1..MaxGrid, y \in 1..MaxGrid, c \in {2, MaxC0}, m \in ModelNames}

InitField == RelayInit /\ ClientInit /\ \E a \in FieldArgs : EngineAt(Argv(a))

NextField == MainResolve \/ MainBuild \/ MainHeader

SpecField == InitField /\ [][NextField]_vars

(***************************************************************************)
(* Properties of the relay.                                                *)
(***************************************************************************)
Frames(log) == SelectSeq(log, LAMBDA m : m.type = "frame")

\* C1: at most one engine process of the session is alive at any time (a
\* restart spawns the new process only after the prior one has terminated).
C1_AtMostOneAlive == Cardinality({p \in Procs : Alive(p)}) <= 1

\* C2: no binary frame is sent to the client after a stop command has been
\* handled and before a later start command is handled.
C2_NoFrameAfterStop ==
    lastCmd = "stop" => \A i \in 1..Len(sent) : sent[i].type # "frame"

\* C3: every frame forwarded after a restart consists only of bytes written by
\* the newly launched engine, never of bytes of an older engine process.
C3_OnlyBytesOfLatestRun ==
    lastCmd = "start" =>
        \A i \in 1..Len(sent) :
            sent[i].type = "frame"
                => \A j \in 1..Len(sent[i].bytes) : sent[i].bytes[j][1] = NextProc - 1

\* C4: in a single run on an open connection, however stdout is split into
\* chunks, the k-th binary message is exactly bytes [k*frameSize, (k+1)*frameSize)
\* of the engine's stream, with frameSize = nx*ny*4.
C4_FramesExact ==
    LET fs == procCfg[1].nx * procCfg[1].ny * FloatBytes
        fr == Frames(sent)
    IN  lastCmd = "start" =>
            \A k \in 1..Len(fr) :
                /\ Len(fr[k].bytes) = fs
                /\ fr[k].bytes = Bytes(1, (k - 1) * fs, fs)

\* C4 witness: two frames were forwarded and a chunk ended inside the third.
C4_Witness ==
    /\ lastCmd = "start"
    /\ Len(Frames(sent)) = 2
    /\ Len(stdoutBuffer) \in 1..(FloatBytes - 1)

\* C5: a stop command and a connection close leave stdoutBuffer and
\* stderrBuffer empty, frameSize 0 and engineProc null, whether or not an engine
\* was running; a start command leaves the buffers empty and frameSize 0 with
\* engineProc the newly spawned process.
C5_StopResets ==
    [][/\ (StopCmd \/ Close) =>
            /\ stdoutBuffer' = <<>>
            /\ stderrBuffer' = <<>>
            /\ frameSize' = 0
            /\ engineProc' = NULL
       /\ StartCmd(1, 1) =>
            /\ stdoutBuffer' = <<>>
            /\ stderrBuffer' = <<>>
            /\ frameSize' = 0
            /\ engineProc' = NextProc]_vars

\* C5 witness: a stop was handled with no engine referenced while bytes of a
\* stopped engine had arrived, and the buffers are empty after it.
C5_Witness ==
    /\ lastCmd = "stop"
    /\ engineProc = NULL
    /\ \E p \in Procs : outRead[p] > 0
    /\ stdoutBuffer = <<>> /\ stderrBuffer = <<>> /\ frameSize = 0

\* C6: a run whose start command is followed at once by a stop command (the
\* relay has received nothing of the run), before a frame interval of the run
\* has elapsed, never has a frame sent to the client.
C6_NoFrameOfQuickRun ==
    \A i \in 1..Len(sent) :
        sent[i].type = "frame"
            => \A j \in 1..Len(sent[i].bytes) : sent[i].bytes[j][1] \notin quick

\* C15: a malformed control message (text that is not JSON, an unknown type,
\* a start without a configuration) is dropped: it changes nothing of the
\* session; a running engine, the buffers and frameSize stay as they are and
\* the connection stays open.
C15_BadMsgDropped ==
    [][(\E kind \in {"notjson", "unknown", "nocfg"} : BadMsg(kind)) =>
          UNCHANGED <<engineProc, stdoutBuffer, stderrBuffer, frameSize,
                      procState, readyState>>]_vars

\* C17: the engine of a session runs unkilled only between a start and the
\* next stop or disconnect, as the process the session references; the close
\* of the connection kills the session's engine and resets the handle, both
\* buffers and frameSize, and a closed session references no engine.
C17_EngineOnlyWhileStarted ==
    /\ [](readyState = "CLOSED" =>
            engineProc = NULL /\ \A p \in Procs : procState[p] # "running")
    /\ [](\A p \in Procs :
            procState[p] = "running" => engineProc = p /\ lastCmd = "start")
    /\ [][Close =>
            /\ engineProc' = NULL
            /\ stdoutBuffer' = <<>> /\ stderrBuffer' = <<>> /\ frameSize' = 0
            /\ engineProc # NULL => procState'[engineProc] # "running"]_vars

C17_Witness ==
    /\ readyState = "CLOSED"
    /\ lastCmd = "close"
    /\ engineProc = NULL
    /\ \E p \in Procs : procState[p] = "killed" /\ procPos[p] > 0

\* C29: the exit event of an engine process never clears the session's
\* handle to another, newer engine: the handle becomes null only when it
\* still refers to the process that exited, in every order of exit events
\* and start commands.
C29_ExitKeepsNewerHandle ==
    [][\A p \in Procs :
          (Alive(p) /\ procState'[p] = "dead") =>
              IF engineProc = p THEN engineProc' = NULL
              ELSE engineProc' = engineProc]_vars

C29_Witness ==
    /\ procState[1] = "dead"
    /\ procState[2] = "running"
    /\ engineProc = 2
    /\ lastCmd = "start"

\* C28: every binary frame the relay sends is preceded on the connection by
\* a meta message, and its length in bytes is nx * ny * 4 for the nx and ny
\* of the most recent meta message before it.
C28_FrameAfterMeta ==
    \A i \in 1..Len(sent) :
        sent[i].type = "frame" =>
            \E j \in 1..(i - 1) :
                /\ sent[j].type = "meta"
                /\ \A m \in (j + 1)..(i - 1) : sent[m].type # "meta"
                /\ Len(sent[i].bytes) = sent[j].nx * sent[j].ny * 4

\* frames of 4 bytes after the meta message of the second run, sent when the
\* meta message of the first run (1 by 2) had been sent before it
C28_Witness ==
    /\ Len(sent) >= 3
    /\ sent[1].type = "meta" /\ sent[1].ny = 2
    /\ sent[2].type = "meta" /\ sent[2].ny = 1
    /\ sent[3].type = "frame" /\ Len(sent[3].bytes) = 4

\* the complete lines of a text, in order
RECURSIVE LinesOf(_)
LinesOf(text) ==
    IF \A i \in 1..Len(text) : text[i] # NL THEN <<>>
    ELSE LET i == CHOOSE i \in 1..Len(text) :
                      text[i] = NL /\ \A j \in 1..(i - 1) : text[j] # NL
         IN  <<SubSeq(text, 1, i - 1)>> \o LinesOf(SubSeq(text, i + 1, Len(text)))

\* the message a line is to give, as a sequence of none or one
MsgOf(line) ==
    IF line = <<>> THEN <<>>
    ELSE IF line[1].k = "HEADER"
         THEN <<[type |-> "meta", bytes |-> <<>>, nx |-> line[2].a,
                 ny |-> line[2].b, key |-> ""]>>
    ELSE IF line[1].k = "PERF"
         THEN <<[type |-> "analytics", bytes |-> <<>>, nx |-> 0, ny |-> 0,
                 key |-> "gpu"]>>
    ELSE IF line[1].k = "ENERGY"
         THEN <<[type |-> "analytics", bytes |-> <<>>, nx |-> 0, ny |-> 0,
                 key |-> "energy"]>>
    ELSE <<>>

\* the messages the complete lines of a text are to give, in order
RECURSIVE MsgsOf(_)
MsgsOf(lines) ==
    IF lines = <<>> THEN <<>> ELSE MsgOf(Head(lines)) \o MsgsOf(Tail(lines))

\* frameSize after the complete lines of a text: nx * ny * 4 of the last
\* HEADER line among them, fs when there is none
RECURSIVE SizeAfter(_, _)
SizeAfter(fs, lines) ==
    IF lines = <<>> THEN fs
    ELSE LET l == Head(lines) IN
         SizeAfter(IF l # <<>> /\ l[1].k = "HEADER" THEN l[2].a * l[2].b * 4 ELSE fs,
                   Tail(lines))

\* C26: however the stderr text is split into chunks, each complete line is
\* classified exactly once and in order and a trailing partial line is kept
\* until its newline arrives.  Every data event leaves unchanged the messages
\* sent so far followed by those the text not yet classified is to give (one
\* meta per HEADER line, one gpu message per PERF line, one energy message per
\* ENERGY line, none for another line), and likewise the frameSize the text
\* is to end with; it keeps only text without a newline, and loses none.
C26_LinesOnceInOrder ==
    [][LET before == stderrBuffer \o errPipe[1]
           after == stderrBuffer' \o errPipe'[1]
       IN  /\ sent' \o MsgsOf(LinesOf(after)) = sent \o MsgsOf(LinesOf(before))
           /\ SizeAfter(frameSize', LinesOf(after)) =
                  SizeAfter(frameSize, LinesOf(before))
           /\ \A i \in 1..Len(stderrBuffer') : stderrBuffer'[i] # NL
           /\ Len(after) <= Len(before)
           /\ after = SubSeq(before, Len(before) - Len(after) + 1, Len(before))
      ]_vars

\* the text HEADER 2 by 1, another line, ENERGY and the beginning of a PERF
\* line has been received, the HEADER line in two chunks
C26_Witness ==
    /\ errPipe[1] = <<>>
    /\ stderrBuffer = <<Tok("PERF", 0, 0)>>
    /\ frameSize = 8
    /\ Len(sent) = 2
    /\ sent[1].type = "meta" /\ sent[1].nx = 2 /\ sent[1].ny = 1
    /\ sent[2].key = "energy"

\* the header of the running engine is parsed and the bytes of a whole frame
\* or more, received from its stdout, wait in the buffer of the open connection
FrameWaits ==
    /\ readyState = "OPEN"
    /\ engineProc = 1 /\ procState[1] = "running"
    /\ frameSize > 0
    /\ Len(stdoutBuffer) >= frameSize

Ws1 == <<engineProc, stdoutBuffer, stderrBuffer, frameSize, sent>>
\* the fields of the second connection and the messages sent on it
Ws2 == <<peer.engineProc, peer.stdoutBuffer, peer.stderrBuffer, peer.frameSize,
         peer.sent>>

\* the processes connection c spawned, after the step
SpawnedBy(c) == IF c = 2 THEN peer.procs' ELSE Procs \ peer.procs'

\* the step is the work of connection c: a start command of c (a process of c
\* is spawned), a stop or close command of c with an engine (a process of c
\* is sent the kill signal), a close of c, or an event of a process of c (data
\* received from one of its pipes, or its exit)
StepOf(c) ==
    \/ \E p \in SpawnedBy(c) :
          \/ procState[p] = "none" /\ procState'[p] # "none"
          \/ procState[p] = "running" /\ procState'[p] = "killed"
          \/ procState[p] # "dead" /\ procState'[p] = "dead"
          \/ outRead'[p] # outRead[p]
          \/ Len(errPipe'[p]) < Len(errPipe[p])
    \/ c = 1 /\ readyState' # readyState
    \/ c = 2 /\ peer.readyState' # peer.readyState

\* C30: the commands and the engine events of one session never change the
\* engineProc, stdoutBuffer, stderrBuffer or frameSize of another session and
\* send nothing on its connection: a step that is the work of one connection,
\* or that changes a field of it or sends on it, leaves the fields of the
\* other and the messages sent on the other as they were.
C30_SessionsApart ==
    [][/\ (StepOf(1) \/ Ws1' # Ws1) => Ws2' = Ws2
       /\ (StepOf(2) \/ Ws2' # Ws2) => Ws1' = Ws1]_vars

\* both connections have a running engine whose header they parsed, each with
\* the frame size of its own grid, and each was sent a frame of its own engine
C30_Witness ==
    /\ engineProc # NULL /\ peer.engineProc # NULL
    /\ frameSize = 4 /\ peer.frameSize = 8
    /\ \E i \in 1..Len(sent) : sent[i].type = "frame" /\ Len(sent[i].bytes) = 4
    /\ \E i \in 1..Len(peer.sent) :
           peer.sent[i].type = "frame" /\ Len(peer.sent[i].bytes) = 8

\* the number of the frame rendered last, 0 before the first
LastRendered ==
    IF client.rendered = <<>> THEN 0
    ELSE client.rendered[Len(client.rendered)].frame

\* the frames received after number k, in the order of receipt
ReceivedAfter(k) == [i \in 1..(client.received - k) |-> k + i]

\* C31: the client renders frames in the order of their receipt, each at most
\* once and at most one per animation tick (the frames rendered have rising
\* numbers and rising ticks); its queue is emptied when a meta message
\* arrives and when it sends a start or a stop command (it holds the frames
\* received since the last of those events and not yet rendered, and is empty
\* after every step that is such an event), so that no frame received before
\* such an event is rendered after it.
C31_QueuePlayedInOrder ==
    /\ [](\A i \in 1..Len(client.rendered) :
            /\ client.rendered[i].frame > client.rendered[i].cleared
            /\ \A j \in 1..(i - 1) :
                   /\ client.rendered[j].frame < client.rendered[i].frame
                   /\ client.rendered[j].tick < client.rendered[i].tick)
    /\ [](client.frameQueue =
             ReceivedAfter(IF client.cleared > LastRendered
                           THEN client.cleared ELSE LastRendered))
    /\ [][client.cleared' # client.cleared => client.frameQueue' = <<>>]_vars

\* frame 1 was rendered, frame 2 was in the queue when a meta message or a
\* command emptied it, and frame 3, received after that, was rendered next
C31_Witness ==
    /\ Len(client.rendered) = 2
    /\ client.rendered[1].frame = 1
    /\ client.rendered[2].frame = 3
    /\ client.rendered[2].cleared = 2

\* C16: when the launch of the engine fails the relay keeps running, and the
\* session stays connected until the client closes it.
C16_RelaySurvivesLaunchFailure ==
    /\ relayUp
    /\ lastCmd # "close" => readyState = "OPEN"

(***************************************************************************)
(* Properties of the engine.                                               *)
(***************************************************************************)
\* the option values requested on the command line, before the clamp
Given == parse_args(args).p

\* C7: with positive cfl, dx and c0 the resolved dt is the smaller of the
\* requested dt and cfl*dx/(sqrt(2)*c0): never above the bound, never above
\* the requested value, and main goes on (an over-large dt is not rejected).
C7_DtClamped ==
    pc # "start" =>
        LET bound == FDiv(FMul(Given.cfl, Given.dx), FMul(SQRT2, Given.c0)) IN
        /\ pc = "build"
        /\ P.dt <= bound
        /\ P.dt <= Given.dt
        /\ P.dt = Min(Given.dt, bound)

\* C7 witness: a requested dt above the bound was resolved to the bound.
C7_Witness ==
    /\ pc = "build"
    /\ Given.cfl > 0 /\ Given.dx > 0 /\ Given.c0 > 0
    /\ P.dt < Given.dt
    /\ P.dt = dtmax(Given)

AllZero(u) == \A k \in DOMAIN u : u[k] = 0

\* C8: with the three buffers zero at the start and source amplitude 0, every
\* buffer is zero after any number of steps, and so is every energy reported
\* (and every frame written).
C8_ZeroStaysZero ==
    (Given.amp = 0 /\ pc \notin {"start", "build"}) =>
        /\ \A b \in 0..2 : AllZero(mem[b])
        /\ lastEnergy \in {-1, 0}
        /\ AllZero(lastFrame)

\* C8 witness: a run with amplitude 0 past its second measurement window.
C8_Witness ==
    /\ Given.amp = 0
    /\ n > 2 * REPORT_STEPS
    /\ lastEnergy = 0
    /\ Len(SelectSeq(events, LAMBDA e : e = "ENERGY")) = 2

\* how far the emitter has got: 0 Uninitialized, 1 HeaderSent, 2 Streaming,
\* 3 Terminated
Phase ==
    IF pc = "done" THEN 3
    ELSE IF \E i \in 1..Len(events) : events[i] = "FRAME" THEN 2
    ELSE IF events # <<>> THEN 1
    ELSE 0

\* C9: the HEADER line is written exactly once in a run, before the first
\* frame and before any PERF or ENERGY line, and the emitter's phase only
\* moves forward: Uninitialized, HeaderSent, Streaming, Terminated.
C9_HeaderOnceFirst ==
    /\ [](/\ events # <<>> => events[1] = "HEADER"
          /\ \A i \in 2..Len(events) : events[i] # "HEADER"
          /\ pc \in {"loop", "step", "source", "rotate", "report", "frame", "done"}
                => Len(SelectSeq(events, LAMBDA e : e = "HEADER")) = 1)
    /\ [][Phase' >= Phase]_vars

\* C9 witness: a finished run that wrote frames and reports after its header.
C9_Witness ==
    /\ pc = "done"
    /\ events[1] = "HEADER"
    /\ \E i \in 1..Len(events) : events[i] = "FRAME"
    /\ \E i \in 1..Len(events) : events[i] = "PERF"
    /\ \E i \in 1..Len(events) : events[i] = "ENERGY"

\* a < b for fractions with positive denominators
FracLess(a, b) == a.n * b.d < b.n * a.d

\* C10: for thickness w > 0 the mask is 0 where the edge distance d >= w, 1
\* where d = 0, strictly larger at the smaller d within the layer, and always
\* within [0, 1].
C10_SpongeProfile ==
    (pc = "header" /\ P.pml > 0) =>
        LET D(k) == EdgeDist(P.nx, P.ny, k % P.nx, k \div P.nx) IN
        \A k \in Cells(P.nx, P.ny) :
            /\ D(k) >= P.pml => h_sponge[k].n = 0
            /\ D(k) = 0 => h_sponge[k].n = h_sponge[k].d
            /\ h_sponge[k].d > 0
            /\ 0 <= h_sponge[k].n /\ h_sponge[k].n <= h_sponge[k].d
            /\ \A k2 \in Cells(P.nx, P.ny) :
                   (D(k) < D(k2) /\ D(k2) < P.pml)
                       => FracLess(h_sponge[k2], h_sponge[k])

\* C10 witness: a mask with cells at distance 0, inside the layer and beyond it.
C10_Witness ==
    /\ pc = "header"
    /\ P.pml = 3
    /\ \E k \in Cells(P.nx, P.ny) : EdgeDist(P.nx, P.ny, k % P.nx, k \div P.nx) = 3
    /\ \E k \in Cells(P.nx, P.ny) :
           /\ EdgeDist(P.nx, P.ny, k % P.nx, k \div P.nx) = 2
           /\ h_sponge[k].n > 0

\* the words at i and i + 1 are refused: the name is none of the options, or
\* it is the last word, or it is a numeric option and the next word holds no
\* number that fits
NumericOptions == DOMAIN OptionField \ {"--model"}

FlawAt(argv, i) ==
    \/ argv[i].s \notin DOMAIN OptionField
    \/ i = Len(argv)
    \/ argv[i].s \in NumericOptions /\ argv[i + 1].k \in {"txt", "big"}

HasFlaw(argv) == \E i \in 1..Len(argv) : i % 2 = 1 /\ FlawAt(argv, i)

\* C14: when an option name is not recognised, an option is the last argument
\* with no value, or the value of a numeric option cannot be parsed, the
\* process ends in parse_args with a nonzero status (exit(1) from die, or the
\* abort of an uncaught exception) and has written no HEADER line and no frame.
C14_BadArgsExit ==
    (HasFlaw(args) /\ pc # "start") =>
        /\ pc \in {"exit1", "abort"}
        /\ \A i \in 1..Len(events) : events[i] \notin {"HEADER", "FRAME"}
        /\ lastFrame = <<>>

C14_Witness ==
    /\ pc = "abort"
    /\ \E i \in 1..Len(args) :
           i % 2 = 0 /\ args[i - 1].s \in NumericOptions /\ args[i].k = "txt"
    /\ \A i \in 1..Len(args) : i % 2 = 1 => args[i].s \in DOMAIN OptionField

\* C11: for every thickness w <= 0 the mask of make_sponge is 0 at every cell,
\* so the sponge block of step_kernel leaves the value of every cell as it is.
C11_NoSpongeWithoutWidth ==
    (pc = "header" /\ P.pml <= 0) =>
        /\ h_sponge = make_sponge(P.nx, P.ny, P.pml)
        /\ \A k \in Cells(P.nx, P.ny) :
               /\ h_sponge[k].n = 0
               /\ \A un \in {-2 * FP, -1, 1, 500, FP} : Damp(h_sponge[k], un) = un

C11_Witness ==
    /\ pc = "header"
    /\ P.pml < 0
    /\ P.nx >= 3 /\ P.ny >= 3
    /\ \A k \in Cells(P.nx, P.ny) : h_sponge[k].n = 0

\* the row of cell k of the grid of P
Row(k) == k \div P.nx

\* C12: in the two_layer model, for every nx and ny, even or odd, the rows
\* j >= ny / 2 (integer division) hold 1.5 * c0 and the rows j < ny / 2 hold c0.
C12_TwoLayerSplit ==
    (pc \in {"header", "loop"} /\ P.model = "two_layer") =>
        \A k \in Cells(P.nx, P.ny) :
            IF Row(k) >= P.ny \div 2 THEN 2 * h_c[k] = 3 * P.c0
            ELSE h_c[k] = P.c0

C12_Witness ==
    /\ pc = "header"
    /\ P.model = "two_layer"
    /\ P.ny % 2 = 1 /\ P.ny >= 3 /\ P.nx >= 2
    /\ h_c[(P.ny \div 2) * P.nx] > P.c0
    /\ h_c[(P.ny \div 2) * P.nx - 1] = P.c0

\* C13: for every model name other than homogeneous, two_layer and circle the
\* engine does not fail and builds the field of the homogeneous model: c0 at
\* every cell.
C13_UnknownModelHomogeneous ==
    Given.model \notin {"homogeneous", "two_layer", "circle"} =>
        /\ pc \notin {"exit1", "abort"}
        /\ pc \in {"header", "loop"} =>
               /\ P.model = Given.model
               /\ DOMAIN h_c = Cells(P.nx, P.ny)
               /\ h_c = fillCField([P EXCEPT !.model = "homogeneous"])
               /\ \A k \in Cells(P.nx, P.ny) : h_c[k] = P.c0

C13_Witness ==
    /\ pc = "loop"
    /\ P.model = "layered"
    /\ P.nx >= 3 /\ P.ny >= 3
    /\ \A k \in Cells(P.nx, P.ny) : h_c[k] = P.c0 /\ P.c0 > 0

\* C18: in every iteration the writes of step_kernel to the next-state buffer
\* are complete before add_source begins to add to it, and the additions are
\* complete before the buffer is read as the current field by the energy
\* reduction, the frame copy or the step_kernel of the next iteration; no
\* buffer is written by one kernel while another reads or writes it.
C18_StagesInOrder ==
    /\ \A a \in running : \A b \in running :
           a # b => a.u2 \notin {b.u0, b.u1, b.u2}
    /\ \A op \in running :
           /\ op.kind = "source" => lastDone.step = op.it
           /\ op.kind = "step" => lastDone.source = op.it - 1 /\ lastDone.step = op.it - 1
    /\ pc \in {"report", "frame"} =>
           /\ DeviceIdle
           /\ lastDone.step = n /\ lastDone.source = n

C18_Witness ==
    /\ pc = "sync"
    /\ stream = <<>>
    /\ \E op \in running :
           /\ op.kind = "source" /\ op.it = 2 /\ op.val # 0
           /\ lastDone.step = 2
           /\ op.u2 = d_u1

\* the rotations main has made
Rotations == IF pc \in {"sync", "report", "frame"} THEN n + 1 ELSE n

\* C19: after every iteration the handles (u0, u1, u2) are pairwise distinct
\* and a permutation of the three buffers; the rotation makes the old current
\* the new previous, the old next the new current and the old previous the
\* new next target; the roles repeat with period 3.
C19_Rotation ==
    /\ [](mem # <<>> =>
            /\ {d_u0, d_u1, d_u2} = {0, 1, 2}
            /\ d_u0 = Rotations % 3
            /\ d_u1 = (Rotations + 1) % 3
            /\ d_u2 = (Rotations + 2) % 3)
    /\ [][(pc = "rotate" /\ pc' = "sync") =>
            (d_u0' = d_u1 /\ d_u1' = d_u2 /\ d_u2' = d_u0)]_vars
    /\ [][pc \notin {"rotate", "build"} => UNCHANGED <<d_u0, d_u1, d_u2>>]_vars

C19_Witness ==
    /\ pc = "loop"
    /\ n = 3
    /\ d_u0 = 0 /\ d_u1 = 1 /\ d_u2 = 2
    /\ mem[0] # mem[1] /\ mem[1] # mem[2]

\* the cells of the width-1 boundary ring of the grid of P
Ring == {k \in Cells(P.nx, P.ny) : ~Interior(P.nx, P.ny, k % P.nx, k \div P.nx)}

\* C20: in every state of the engine every cell of the boundary ring of each
\* of the three buffers holds 0, wherever the source is (on the edge and next
\* to it included); step_kernel and add_source write no ring cell.
C20_RingZero ==
    /\ [](mem # <<>> => \A b \in 0..2 : \A k \in Ring : mem[b][k] = 0)
    /\ [](lastFrame # <<>> => \A k \in Ring : lastFrame[k] = 0)
    /\ [][mem # <<>> => \A b \in 0..2 : \A k \in Ring : mem'[b][k] = mem[b][k]]_vars

C20_Witness ==
    /\ pc = "loop"
    /\ n >= 2
    /\ P.sx = 0 /\ P.sy = 0
    /\ \E k \in Cells(P.nx, P.ny) : mem[d_u1][k] # 0
    /\ \A k \in Ring : mem[d_u1][k] = 0

\* the cells add_source is to change: interior, and at most 3 columns and at
\* most 3 rows from the source location
Target(k) ==
    /\ k \in Cells(P.nx, P.ny) \ Ring
    /\ Abs((k % P.nx) - P.sx) <= 3
    /\ Abs((k \div P.nx) - P.sy) <= 3

\* C21: add_source changes exactly the interior cells of the next-state buffer
\* within 3 cells of the source location, each by the pulse value times its
\* Gaussian weight; every other cell of that buffer and both other buffers
\* stay as they are.
C21_SourceFootprint ==
    [][\A op \in running :
          (op.kind = "source" /\ op \notin running') =>
              /\ \A k \in Cells(P.nx, P.ny) :
                     mem'[op.u2][k] =
                        IF Target(k)
                        THEN mem[op.u2][k] +
                             FMul(op.val, SourceWeight((k % P.nx) - P.sx,
                                                       (k \div P.nx) - P.sy))
                        ELSE mem[op.u2][k]
              /\ \A b \in 0..2 : b # op.u2 => mem'[b] = mem[b]
              /\ op.u2 = (op.it + 2) % 3]_vars

\* an add_source with a pulse has completed: the cell at distance 3 changed,
\* the interior cell at distance 4 did not
C21_Witness ==
    /\ P.sx = 0 /\ P.sy = 0 /\ P.nx >= 6 /\ P.ny >= 6
    /\ lastDone.source = 1 /\ lastDone.step = 1
    /\ running = {} /\ stream = <<>>
    /\ mem[d_u1][3 * P.nx + 3] # 0
    /\ mem[d_u1][3 * P.nx + 4] = 0
    /\ mem[d_u1][4 * P.nx + 1] = 0

\* C22: at every report the timing accumulator holds the timings of exactly
\* 100 steps, those executed since the previous report or since the start.
C22_WindowOfHundred ==
    (pc = "report" /\ n % 100 = 0 /\ n > 0) =>
        \E ms \in StepTimes : acc = 100 * ms

\* the lines of a kind main has written
Count(kind) == Len(SelectSeq(events, LAMBDA e : e = kind))

\* the reports made before the report block of iteration it: one per multiple
\* of 100 in 1..(it - 1)
ReportsBefore(it) == IF it > 0 THEN (it - 1) \div 100 ELSE 0

\* C23: at every iteration n > 0 with n mod 100 = 0 the engine writes one PERF
\* line and right after it one ENERGY line, and it writes neither at any other
\* iteration, n = 0 included.
C23_ReportEveryHundred ==
    /\ [][(pc = "report" /\ pc' = "frame") =>
            IF n > 0 /\ n % 100 = 0
            THEN events' = events \o <<"PERF", "ENERGY">>
            ELSE events' = events]_vars
    /\ [][pc # "report" =>
            /\ Len(SelectSeq(events', LAMBDA e : e = "PERF")) = Count("PERF")
            /\ Len(SelectSeq(events', LAMBDA e : e = "ENERGY")) = Count("ENERGY")]_vars
    /\ [](pc \in {"loop", "step", "source", "rotate", "sync", "report", "done"} =>
            Count("PERF") = ReportsBefore(n) /\ Count("ENERGY") = ReportsBefore(n))
    /\ [](\A i \in 1..Len(events) :
            /\ events[i] = "PERF" => i < Len(events) /\ events[i + 1] = "ENERGY"
            /\ events[i] = "ENERGY" => i > 1 /\ events[i - 1] = "PERF")

C23_Witness ==
    /\ pc = "frame"
    /\ n = 200
    /\ Count("PERF") = 2 /\ Count("ENERGY") = 2
    /\ events[Len(events)] = "ENERGY"

\* C24: with frame interval M >= 1 and step budget S the engine runs exactly S
\* iterations and writes a frame of nx * ny values of 4 bytes at iteration n
\* iff n mod M = 0 (the first at n = 0, ceil(S / M) in all), then ends and
\* writes nothing more.
C24_FramesEveryM ==
    /\ [][(pc = "frame" /\ pc' = "loop") =>
            /\ n < P.steps /\ lastDone.step = n
            /\ IF n % P.frames_every = 0
               THEN /\ events' = Append(events, "FRAME")
                    /\ Cardinality(DOMAIN lastFrame') * 4 = P.nx * P.ny * 4
               ELSE events' = events /\ lastFrame' = lastFrame]_vars
    /\ [][pc # "frame" => Len(SelectSeq(events', LAMBDA e : e = "FRAME")) = Count("FRAME")]_vars
    /\ [](pc \in {"loop", "step", "source", "rotate", "sync", "report", "frame", "done"} =>
            Count("FRAME") = (n + P.frames_every - 1) \div P.frames_every)
    /\ [](pc = "done" => n = P.steps /\ lastDone.step = P.steps - 1)
    /\ [][pc # "done"]_vars

C24_Witness ==
    /\ pc = "done"
    /\ P.steps = 5 /\ P.frames_every = 2
    /\ n = 5
    /\ Count("FRAME") = 3

\* the field iteration n computed, from the buffers as they are after the
\* rotation: step_kernel on the old previous (now the next target) and the old
\* current (now the previous), then add_source with the pulse of time t - dt
Computed ==
    add_source(step_kernel(mem[d_u2], mem[d_u0], Zeros(P.nx, P.ny), h_c, h_sponge,
                           P.nx, P.ny, P.dt, P.dx, VISC_ALPHA),
               P.nx, P.ny, P.sx, P.sy, FMul(P.amp, ricker(t - P.dt, P.f0)))

\* C25: the frame written and the energy reported at iteration n are taken
\* from the buffer iteration n computed (the stencil result plus the source of
\* that iteration), which is the current buffer after the rotation.
C25_ReadsFreshField ==
    /\ [](pc \in {"report", "frame"} =>
            /\ lastDone.step = n /\ lastDone.source = n
            /\ d_u1 = (n + 2) % 3
            /\ mem[d_u1] = Computed)
    /\ [][(pc = "report" /\ pc' = "frame" /\ n > 0 /\ n % 100 = 0) =>
            lastEnergy' = sum_energy(Computed, P.nx * P.ny)]_vars
    /\ [][(pc = "frame" /\ pc' = "loop" /\ n % P.frames_every = 0) =>
            lastFrame' = Computed]_vars

C25_Witness ==
    /\ pc = "loop"
    /\ n = 121
    /\ lastFrame = mem[d_u1]
    /\ lastFrame # mem[d_u0] /\ lastFrame # mem[d_u2]
    /\ lastEnergy > 0
    /\ lastEnergy # sum_energy(mem[d_u0], P.nx * P.ny)

====
